---- MODULE Spec2Model ----
(***************************************************************************)
(* afero-s3: a filesystem facade (Fs) and a file handle (File) over an S3  *)
(* bucket.  The File modelled is the RangeReader version of s3_file.go     *)
(* (src/unnamed/part_002, lines 376-769); the Fs is src/s3_fs.go.          *)
(*                                                                         *)
(* Paths and keys are sequences of one-character strings, so that prefix   *)
(* matching, path.Clean, path.Join and path.Base are computed character by *)
(* character as the Go library computes them.                              *)
(***************************************************************************)
EXTENDS Integers, Sequences, FiniteSets, TLC

(***************************************************************************)
(* Bounds of the model.                                                    *)
(***************************************************************************)
\* longest object body written or read in the file-handle specification
MaxSize == 2
\* longest buffer handed to Read or Write
MaxBuf == 2
\* largest offset handed to Seek
MaxSeek == 3
\* the smallest offset handed to Seek is -MaxBack
MaxBack == 1
\* largest n handed to Readdir / Readdirnames
MaxN == 2
\* number of files in the large directory, above one ReaddirAll page
BigDir == 101
\* a listing is followed page by page until it has returned MaxEntries
\* entries (and then only read to its end in one call)
MaxEntries == 4
\* the backend call of an operation that fails is one of the first MaxFail
MaxFail == 2

\* the call of a RemoveAll that fails is one of its first MaxRemoveFail
MaxRemoveFail == 8

\* the modes Chmod is called with are 0..MaxMode: the permission bits of
\* the group and of the others
MaxMode == 63

\* the page size ReaddirAll asks Readdir for
ReaddirAllPage == 100

Bytes == {1, 2}

(***************************************************************************)
(* Characters and strings.                                                 *)
(***************************************************************************)
Digits == <<"0", "1", "2", "3", "4", "5", "6", "7", "8", "9">>

\* byte order of the characters the model uses (S3 lists keys in byte order)
Ord(c) ==
    CASE c = "." -> 46
      [] c = "/" -> 47
      [] c = "0" -> 48 [] c = "1" -> 49 [] c = "2" -> 50 [] c = "3" -> 51
      [] c = "4" -> 52 [] c = "5" -> 53 [] c = "6" -> 54 [] c = "7" -> 55
      [] c = "8" -> 56 [] c = "9" -> 57
      [] c = "a" -> 97 [] c = "b" -> 98 [] c = "d" -> 100 [] c = "e" -> 101
      [] c = "f" -> 102 [] c = "s" -> 115
      [] OTHER -> 127

MinOf(a, b) == IF a <= b THEN a ELSE b

\* strings.HasPrefix
HasPrefix(s, p) ==
    /\ Len(p) <= Len(s)
    /\ \A i \in 1..Len(p) : s[i] = p[i]

\* strings.HasSuffix
HasSuffix(s, p) ==
    /\ Len(p) <= Len(s)
    /\ \A i \in 1..Len(p) : s[Len(s) - Len(p) + i] = p[i]

\* strings.TrimPrefix
TrimPrefix(s, p) ==
    IF HasPrefix(s, p) THEN SubSeq(s, Len(p) + 1, Len(s)) ELSE s

\* byte-wise string comparison s < t
LexLT(s, t) ==
    LET n == MinOf(Len(s), Len(t))
        d == {i \in 1..n : s[i] # t[i]}
    IN  IF d = {}
        THEN Len(s) < Len(t)
        ELSE LET i == CHOOSE j \in d : \A k \in d : j <= k
             IN  Ord(s[i]) < Ord(t[i])

\* the elements of a path between its slashes, empty ones included
RECURSIVE SplitSlash(_)
SplitSlash(s) ==
    LET sl == {i \in 1..Len(s) : s[i] = "/"}
    IN  IF sl = {}
        THEN <<s>>
        ELSE LET i == CHOOSE j \in sl : \A k \in sl : j <= k
             IN  <<SubSeq(s, 1, i - 1)>> \o SplitSlash(SubSeq(s, i + 1, Len(s)))

RECURSIVE JoinSlash(_)
JoinSlash(segs) ==
    IF segs = <<>> THEN <<>>
    ELSE IF Len(segs) = 1 THEN segs[1]
    ELSE segs[1] \o <<"/">> \o JoinSlash(Tail(segs))

\* the element stack of path.Clean: "." and empty elements dropped, ".."
\* removing the element before it (or itself, at the root)
RECURSIVE CleanStack(_, _, _)
CleanStack(segs, stack, rooted) ==
    IF segs = <<>> THEN stack
    ELSE LET e == Head(segs)
             rest == Tail(segs)
         IN  IF e = <<>> \/ e = <<".">>
             THEN CleanStack(rest, stack, rooted)
             ELSE IF e = <<".", ".">>
             THEN IF stack # <<>> /\ stack[Len(stack)] # <<".", ".">>
                  THEN CleanStack(rest, SubSeq(stack, 1, Len(stack) - 1), rooted)
                  ELSE IF rooted
                  THEN CleanStack(rest, stack, rooted)
                  ELSE CleanStack(rest, Append(stack, e), rooted)
             ELSE CleanStack(rest, Append(stack, e), rooted)

\* path.Clean (filepath.Clean on a slash-separated system)
Clean(p) ==
    LET out(rooted, body) ==
            IF rooted THEN <<"/">> \o body
            ELSE IF body = <<>> THEN <<".">> ELSE body
        elements(rooted) ==
            out(rooted, JoinSlash(CleanStack(SplitSlash(p), <<>>, rooted)))
    IN  IF p = <<>> THEN <<".">> ELSE elements(p[1] = "/")

\* path.Join of two elements: empty elements ignored, the result cleaned
Join(a, b) ==
    IF a = <<>> /\ b = <<>> THEN <<>>
    ELSE Clean(IF a = <<>> THEN b
               ELSE IF b = <<>> THEN a
               ELSE a \o <<"/">> \o b)

RECURSIVE TrimTrailingSlashes(_)
TrimTrailingSlashes(p) ==
    IF p # <<>> /\ p[Len(p)] = "/"
    THEN TrimTrailingSlashes(SubSeq(p, 1, Len(p) - 1))
    ELSE p

\* path.Base
Base(p) ==
    LET last(q) ==
            LET sl == {i \in 1..Len(q) : q[i] = "/"}
            IN  IF q = <<>> THEN <<"/">>
                ELSE IF sl = {} THEN q
                ELSE LET i == CHOOSE j \in sl : \A k \in sl : j >= k
                     IN  SubSeq(q, i + 1, Len(q))
    IN  IF p = <<>> THEN <<".">> ELSE last(TrimTrailingSlashes(p))

\* the file part of path.Split: what follows the last slash
SplitFile(p) ==
    LET sl == {i \in 1..Len(p) : p[i] = "/"}
    IN  IF sl = {} THEN p
        ELSE LET i == CHOOSE j \in sl : \A k \in sl : j >= k
             IN  SubSeq(p, i + 1, Len(p))

(***************************************************************************)
(* The object store.  A bucket is a function from keys to objects.  The    *)
(* store the repository is tested against addresses an object by its key   *)
(* without the leading slash ("/d/x" and "d/x" name the same object), and  *)
(* LIST returns keys in that form.                                         *)
(***************************************************************************)
Slash == <<"/">>
NoToken == <<>>

\* the key the store files an object under
BKey(key) == TrimPrefix(key, Slash)

Keys(b) == DOMAIN b

\* HeadObject: whether the key names an object (otherwise a 404)
HeadObject(b, key) == BKey(key) \in Keys(b)

\* PutObject / a completed upload: the object is replaced as a whole
PutObject(b, key, data) ==
    [k \in Keys(b) \cup {BKey(key)} |->
        IF k = BKey(key) THEN [data |-> data] ELSE b[k]]

\* DeleteObject: deleting a missing key succeeds
DeleteObject(b, key) == [k \in Keys(b) \ {BKey(key)} |-> b[k]]

\* the name of the bucket the facade was constructed with
BucketName == <<"B">>

\* CopyObject: the source is given as bucket name and key in one string; a
\* source that names no object of the bucket is an error
CopyObject(b, copySource, key) ==
    LET copy(src) ==
            IF HasPrefix(copySource, BucketName \o Slash) /\ src \in Keys(b)
            THEN [ok |-> TRUE, bucket |-> PutObject(b, key, b[src].data)]
            ELSE [ok |-> FALSE, bucket |-> b]
    IN  copy(BKey(TrimPrefix(copySource, BucketName)))

\* the keys the buckets of the model are made of
SmallKeySeq ==
    << <<"d", "/">>,
       <<"d", "/", "a">>,
       <<"d", "/", "s", "/">>,
       <<"d", "/", "s", "/", "a">>,
       <<"d", "/", "s", "/", "e", "/">>,
       <<"f">> >>

\* the three-digit name of the i-th file of the large directory
BigName(i) ==
    <<Digits[((i \div 100) % 10) + 1], Digits[((i \div 10) % 10) + 1],
      Digits[(i % 10) + 1]>>

BigKeySeq ==
    << <<"b", "/">>, <<"b", "/", "s", "/", "a">> >>
        \o [i \in 1..BigDir |-> <<"b", "/">> \o BigName(i - 1)]

\* the further keys the facade's calls make or find
FacadeKeySeq ==
    << <<"d">>,
       <<"d", "/", "a", "/">>,
       <<"f", "/">>,
       <<"f", "a">>,
       <<"f", "a", "/">>,
       <<"e", "/">>,
       <<"e", "/", "a">>,
       <<"e", "/", "s", "/">>,
       <<"e", "/", "s", "/", "a">> >>

\* every key of the model, in the byte order LIST returns keys in
KeyOrder == SortSeq(SmallKeySeq \o BigKeySeq \o FacadeKeySeq, LexLT)

\* the item a key is listed as: itself, or with a delimiter the common
\* prefix that ends at the first "/" after the listing prefix
ListItem(key, prefix, delimited) ==
    LET rest == SubSeq(key, Len(prefix) + 1, Len(key))
        sl == {i \in 1..Len(rest) : rest[i] = "/"}
    IN  IF delimited /\ sl # {}
        THEN LET i == CHOOSE j \in sl : \A k \in sl : j <= k
             IN  [s |-> prefix \o SubSeq(rest, 1, i), cp |-> TRUE]
        ELSE [s |-> key, cp |-> FALSE]

\* the items of a listing that follow the continuation token, in key
\* order, each common prefix once
ListItems(b, prefix, delimited, token) ==
    LET after(items) ==
            IF token = NoToken THEN items
            ELSE SelectSeq(items, LAMBDA it : LexLT(token, it.s))
        its(firsts) == [i \in 1..Len(firsts) |-> firsts[i].it]
        once(raw) ==
            SelectSeq([i \in 1..Len(raw) |->
                          [it |-> raw[i],
                           first |-> i = 1 \/ raw[i - 1] # raw[i]]],
                      LAMBDA x : x.first)
        listed(keys) ==
            [i \in 1..Len(keys) |-> ListItem(keys[i], prefix, delimited)]
        matching(held) ==
            SelectSeq(KeyOrder, LAMBDA k : k \in held /\ HasPrefix(k, prefix))
    IN  after(its(once(listed(matching(Keys(b))))))

\* ListObjectsV2: one page of at most maxKeys items in key order, common
\* prefixes and keys counted alike
ListObjectsV2(b, prefix, delimited, token, maxKeys) ==
    LET prefixes(cps) == [i \in 1..Len(cps) |-> cps[i].s]
        contents(objs) ==
            [i \in 1..Len(objs) |->
                [Key |-> objs[i].s, Size |-> Len(b[objs[i].s].data)]]
        output(page, n, more) ==
            [CommonPrefixes |-> prefixes(SelectSeq(page, LAMBDA it : it.cp)),
             Contents |-> contents(SelectSeq(page, LAMBDA it : ~it.cp)),
             KeyCount |-> n,
             IsTruncated |-> more,
             NextContinuationToken |-> IF more THEN page[n].s ELSE NoToken]
        cut(items, n) == output(SubSeq(items, 1, n), n, Len(items) > n)
        paged(items) == cut(items, MinOf(maxKeys, Len(items)))
    IN  paged(ListItems(b, prefix, delimited, token))

(***************************************************************************)
(* The properties of uploaded objects.                                     *)
(***************************************************************************)
\* a nil *string
NoStr == "<nil>"

\* a nil *UploadedFileProperties
NoProps == [set |-> FALSE, ACL |-> NoStr, CacheControl |-> NoStr,
            ContentType |-> NoStr]

\* the properties of a PutObjectInput or UploadInput with none set, and no
\* request at all
NewInput(key) ==
    [Key |-> key, ACL |-> NoStr, CacheControl |-> NoStr, ContentType |-> NoStr]

NoInput == NewInput(<<>>)

\* filepath.Ext: from the last dot of the last element of the path
Ext(path) ==
    LET dots == {i \in 1..Len(path) :
                    path[i] = "." /\ \A j \in i..Len(path) : path[j] # "/"}
    IN  IF dots = {} THEN <<>>
        ELSE SubSeq(path, CHOOSE i \in dots : \A j \in dots : i >= j,
                    Len(path))

\* mime.TypeByExtension, for the extensions of the built-in table the
\* model uses: an unknown extension gives the empty string
TypeByExtension(ext) ==
    CASE ext = <<".", "p", "n", "g">> -> "image/png"
      [] ext = <<".", "c", "s", "s">> -> "text/css; charset=utf-8"
      [] OTHER -> ""

applyFileCreateProps(req, p) ==
    [req EXCEPT !.ACL = IF p.ACL # NoStr THEN p.ACL ELSE @,
                !.CacheControl = IF p.CacheControl # NoStr
                                 THEN p.CacheControl ELSE @,
                !.ContentType = IF p.ContentType # NoStr
                                THEN p.ContentType ELSE @]

\* an applyFileWriteProps that leaves the Cache-Control out
applyFileWritePropsNoCache(input, p) ==
    [input EXCEPT !.ACL = IF p.ACL # NoStr THEN p.ACL ELSE @,
                  !.ContentType = IF p.ContentType # NoStr
                                  THEN p.ContentType ELSE @]

applyFileWriteProps(input, p) ==
    [input EXCEPT !.ACL = IF p.ACL # NoStr THEN p.ACL ELSE @,
                  !.CacheControl = IF p.CacheControl # NoStr
                                   THEN p.CacheControl ELSE @,
                  !.ContentType = IF p.ContentType # NoStr
                                  THEN p.ContentType ELSE @]

\* the PutObjectInput of Fs.Create
PutObjectInput(props, name) ==
    LET guessed(req) ==
            IF req.ContentType = NoStr
            THEN [req EXCEPT !.ContentType = TypeByExtension(Ext(name))]
            ELSE req
    IN  guessed(IF props.set THEN applyFileCreateProps(NewInput(name), props)
                ELSE NewInput(name))

\* the UploadInput the goroutine of openWriteStream builds
UploadInput(props, name) ==
    LET guessed(input) ==
            IF input.ContentType = NoStr
            THEN [input EXCEPT !.ContentType = TypeByExtension(Ext(name))]
            ELSE input
    IN  guessed(IF props.set THEN applyFileWriteProps(NewInput(name), props)
                ELSE NewInput(name))

(***************************************************************************)
(* FileInfo and Fs.Stat.                                                   *)
(***************************************************************************)
\* the nil os.FileInfo
NoInfo == [ok |-> FALSE, name |-> <<>>, directory |-> FALSE, sizeInBytes |-> 0]

NewFileInfo(name, directory, sizeInBytes) ==
    [ok |-> TRUE, name |-> name, directory |-> directory,
     sizeInBytes |-> sizeInBytes]

\* FileInfo.Mode: 0755 for a directory, 0664 for a file
ModeDir == 493
ModeFile == 436

Mode(fi) == IF fi.directory THEN ModeDir ELSE ModeFile

\* FileInfo.IsDir
IsDir(fi) == fi.directory

\* the key prefix the facade was constructed with
FsPrefix == <<>>

\* Fs.GetPath of a facade constructed with the given prefix
GetPathOf(prefix, path) ==
    IF HasPrefix(path, prefix) THEN path
    ELSE Clean(Join(Clean(prefix), path))

GetPath(path) == GetPathOf(FsPrefix, path)

\* a statDirectory that takes only a marker object for a directory
statDirectoryOfMarker(b, in_name) ==
    IF HeadObject(b, GetPath(in_name) \o Slash)
    THEN [info |-> NewFileInfo(Base(GetPath(in_name)), TRUE, 0), err |-> "nil"]
    ELSE [info |-> NoInfo, err |-> "ErrNotExist"]

statDirectory(b, in_name) ==
    LET result(name, out) ==
            IF out.KeyCount = 0 /\ name # <<>> /\ name # FsPrefix
            THEN [info |-> NoInfo, err |-> "ErrNotExist"]
            ELSE [info |-> NewFileInfo(Base(name), TRUE, 0), err |-> "nil"]
        list(name, nameClean) ==
            result(name, ListObjectsV2(b, TrimPrefix(nameClean, Slash), FALSE,
                                       NoToken, 1))
        stat(name) == list(name, Clean(name))
    IN  stat(GetPath(in_name))

Stat(b, in_name) ==
    LET stat(name) ==
            IF name = Slash
            THEN [info |-> NewFileInfo(name, TRUE, 0), err |-> "nil"]
            ELSE IF ~HeadObject(b, name)
            THEN statDirectory(b, name)
            ELSE IF HasSuffix(name, Slash)
            THEN [info |-> NewFileInfo(name, FALSE, 0), err |-> "nil"]
            ELSE [info |-> NewFileInfo(Base(name), FALSE,
                                       Len(b[BKey(name)].data)),
                  err |-> "nil"]
    IN  stat(GetPath(in_name))

(***************************************************************************)
(* State.                                                                  *)
(***************************************************************************)
VARIABLES
    bucket,     \* the bucket: key -> object
    f,          \* the File handle the caller holds (fields of struct File)
    pipe,       \* the io.Pipe between Write and the upload goroutine
    up,         \* the upload goroutine started by openWriteStream
    pc,         \* where the caller is: "idle", blocked in "Write" or "Close"
    ret,        \* what the caller's last finished call returned
    gh,         \* history of the calls on the handle (not program state)
    fs          \* the facade (fields of struct Fs): its FileProps and prefix

vars == <<bucket, f, pipe, up, pc, ret, gh, fs>>

\* NewFs: FileProps is left nil
NewFs == [FileProps |-> NoProps, prefix |-> FsPrefix]

\* NewFs with a key prefix
NewFsWithPrefix(prefix) == [NewFs EXCEPT !.prefix = prefix]

\* a closed (nil) response body
NoBody == [open |-> FALSE, pos |-> 0, end |-> -1]

\* NewFile: every other field at its zero value
NewFile(name) ==
    [held |-> TRUE,
     name |-> name,
     cachedInfo |-> NoInfo,
     streamRead |-> NoBody,
     streamReadOffset |-> 0,
     streamWrite |-> FALSE,
     streamWriteErr |-> "nil",
     streamWriteCloseErr |-> FALSE,
     readdirContinuationToken |-> NoToken,
     readdirNotTruncated |-> FALSE,
     closed |-> FALSE]

\* the caller holds no handle
NoFile == [NewFile(<<>>) EXCEPT !.held = FALSE]

NoPipe == [buf |-> <<>>, p |-> <<>>, wclosed |-> FALSE]
NoUpload ==
    [pc |-> "none", key |-> <<>>, body |-> <<>>, err |-> "nil",
     input |-> NoInput]

NoRet ==
    [op |-> "none", n |-> 0, data |-> <<>>, err |-> "nil",
     writing |-> FALSE, closed |-> FALSE, lists |-> 0, info |-> NoInfo,
     acl |-> [key |-> <<>>, acl |-> ""], req |-> NoInput, deletes |-> 0]

NoHistory ==
    [kind |-> "none", trail |-> "other", base |-> 0, got |-> <<>>,
     returned |-> 0, path |-> <<>>, to |-> <<>>, before |-> <<>>, mode |-> 0,
     failAt |-> 0,
     accepted |-> <<>>, writes |-> 0,
     written |-> [ok |-> FALSE, data |-> <<>>, writes |-> 0]]

\* the program has crashed (a nil dereference): nothing runs any more
Crashed == ret.err = "panic"

Flags == {"O_WRONLY", "O_RDWR", "O_APPEND", "O_CREATE"}

\* an OpenFile that lets O_CREATE through whatever comes with it
RejectedUnlessCreate(flag) ==
    ("O_RDWR" \in flag \/ "O_APPEND" \in flag) /\ "O_CREATE" \notin flag

\* the flags Fs.OpenFile refuses
Rejected(flag) == "O_RDWR" \in flag \/ "O_APPEND" \in flag

\* the flags Fs.OpenFile opens a write stream for
WriteMode(flag) == "O_CREATE" \in flag \/ "O_WRONLY" \in flag

(***************************************************************************)
(* File: the read path.                                                    *)
(***************************************************************************)
\* File.RangeReader: the body of a GET of bytes from..target, or an error;
\* getErr is what the GET call itself answers
RangeReader(file, from, amt, getErr) ==
    LET size == file.cachedInfo.sizeInBytes
        t0 == from + amt - 1
        target == IF t0 >= size THEN size - 1 ELSE t0
    IN  IF from >= size THEN [body |-> NoBody, err |-> "EOF"]
        ELSE IF getErr # "nil" THEN [body |-> NoBody, err |-> getErr]
        ELSE [body |-> [open |-> TRUE, pos |-> from, end |-> target],
              err |-> "nil"]

\* io.ReadCloser.Read on a response body: k of the bytes left (all of them
\* asked for when none is left), and io.EOF with the last ones or only on
\* the call after them
BodyRead(body, k, eofNow) ==
    LET left == body.end - body.pos + 1
    IN  IF left <= 0 THEN [n |-> 0, err |-> "EOF", body |-> body]
        ELSE [n |-> k,
              err |-> IF k = left /\ eofNow THEN "EOF" ELSE "nil",
              body |-> [body EXCEPT !.pos = body.pos + k]]

\* a Read that advances the offset only when the body returned no error
ReadAdvanceOnSuccess(offset, n, err) == IF err = "nil" THEN offset + n ELSE offset

\* the logical offset after the body returned n bytes and err
ReadAdvance(offset, n, err) == offset + n

\* a Read that keeps the range stream that has returned io.EOF
ReadStreamKept(br) == br.body

\* the range stream after the body's Read: closed and dropped on io.EOF
ReadStreamAfter(br) == IF br.err = "EOF" THEN NoBody ELSE br.body

\* File.Read with a buffer of len bytes; obj is the object's body
Read(file, len, obj, getErr, k, eofNow) ==
    LET done(br, data, body1, err1, off1) ==
            [f |-> [file EXCEPT !.streamRead = body1,
                                !.streamReadOffset = off1],
             n |-> br.n, data |-> data,
             err |-> IF off1 >= file.cachedInfo.sizeInBytes THEN "EOF"
                     ELSE err1]
        read(rr, br) ==
            done(br,
                 SubSeq(obj, rr.body.pos + 1, rr.body.pos + br.n),
                 ReadStreamAfter(br),
                 IF br.err = "EOF" THEN "nil" ELSE br.err,
                 ReadAdvance(file.streamReadOffset, br.n, br.err))
        stream(rr) ==
            IF rr.err # "nil"
            THEN [f |-> [file EXCEPT !.streamRead = NoBody],
                  n |-> 0, data |-> <<>>, err |-> rr.err]
            ELSE read(rr, BodyRead(rr.body, k, eofNow))
    IN  IF ~file.streamRead.open /\ ~file.cachedInfo.ok
        THEN [f |-> file, n |-> 0, data |-> <<>>, err |-> "panic"]
        ELSE stream(IF file.streamRead.open
                    THEN [body |-> file.streamRead, err |-> "nil"]
                    ELSE RangeReader(file, file.streamReadOffset, len, getErr))

SeekStart == 0
SeekCurrent == 1
SeekEnd == 2

\* the whence values handed to Seek: the three of package io and one other
Whences == {SeekStart, SeekCurrent, SeekEnd, 3}

\* File.seekRead
seekRead(file, offset, whence) ==
    LET startByte ==
            CASE whence = SeekStart -> offset
              [] whence = SeekCurrent -> file.streamReadOffset + offset
              [] whence = SeekEnd -> file.cachedInfo.sizeInBytes - offset
              [] OTHER -> file.streamReadOffset
    IN  IF startByte < 0
        THEN [f |-> file, n |-> startByte, err |-> "ErrInvalidSeek"]
        ELSE [f |-> [file EXCEPT !.streamReadOffset = startByte],
              n |-> startByte, err |-> "nil"]

\* a Seek that does not look at the closed flag
SeekIgnoringClosed(file, offset, whence) ==
    IF file.streamWrite
    THEN [f |-> file, n |-> 0, err |-> "ErrNotSupported"]
    ELSE IF whence = SeekEnd /\ ~file.cachedInfo.ok
    THEN [f |-> file, n |-> 0, err |-> "panic"]
    ELSE seekRead(file, offset, whence)

\* File.Seek
Seek(file, offset, whence) ==
    IF file.closed THEN [f |-> file, n |-> 0, err |-> "ErrFileClosed"]
    ELSE IF file.streamWrite
    THEN [f |-> file, n |-> 0, err |-> "ErrNotSupported"]
    ELSE IF whence = SeekEnd /\ ~file.cachedInfo.ok
    THEN [f |-> file, n |-> 0, err |-> "panic"]
    ELSE seekRead(file, offset, whence)

(***************************************************************************)
(* File: the write path.                                                   *)
(***************************************************************************)
\* File.openWriteStream: the pipe and the completion channel are made and
\* the upload goroutine is started
openWriteStream(file) ==
    IF file.streamWrite
    THEN [f |-> file, err |-> "ErrAlreadyOpened", started |-> FALSE]
    ELSE [f |-> [file EXCEPT !.streamWriteCloseErr = TRUE,
                             !.streamWrite = TRUE],
          err |-> "nil", started |-> TRUE]

\* the handle of a file opened for reading: no GET is issued before the
\* first Read, which opens its range at the logical offset
openReadStream(file, startAt) ==
    [f |-> [file EXCEPT !.streamReadOffset = startAt], err |-> "nil"]

\* a File.Stat that asks for the object only
FileStatOfObject(b, file) ==
    IF file.name # Slash /\ ~HeadObject(b, file.name)
    THEN [f |-> file, info |-> NoInfo, err |-> "ErrNotExist"]
    ELSE [f |-> [file EXCEPT !.cachedInfo = Stat(b, file.name).info],
          info |-> Stat(b, file.name).info, err |-> "nil"]

\* File.Stat
FileStat(b, file) ==
    LET cached(st) ==
            [f |-> IF st.err = "nil" THEN [file EXCEPT !.cachedInfo = st.info]
                   ELSE file,
             info |-> st.info, err |-> st.err]
    IN  cached(Stat(b, file.name))

\* an upload that puts each part it takes before the ones it has
UploadPrepend(body, chunk) == chunk \o body

\* the upload reads the pipe with one worker: the bytes it takes follow
\* the ones it already has
UploadAppend(body, chunk) == body \o chunk

\* a Write that hands on the error of the pipe
WriteErrorOfPipe(file, pipeErr) == pipeErr

\* what File.Write returns when the write to the pipe returned pipeErr: the
\* error the upload goroutine recorded, not the error of the pipe
WriteError(file, pipeErr) ==
    IF pipeErr # "nil" THEN file.streamWriteErr ELSE "nil"

\* a Close that drops the upload's result
CloseResultDropped(sent) == "nil"

\* what Close returns for a handle with a write stream: the value the
\* upload goroutine sent on streamWriteCloseErr
CloseResult(sent) == sent

\* the object's body as a GET sees it
ObjectData(b, key) ==
    IF BKey(key) \in Keys(b) THEN b[BKey(key)].data ELSE <<>>

\* byte strings of length lo..hi
ByteSeqs(lo, hi) == UNION {[1..n -> Bytes] : n \in lo..hi}

(***************************************************************************)
(* The backend calls of one operation.  w.bucket is the bucket, w.calls    *)
(* counts the calls issued so far, the call numbered w.failAt fails        *)
(* (0: none does), w.lists and w.deletes count the LIST and DELETE calls.  *)
(***************************************************************************)
NewWorld(b, failAt) ==
    [bucket |-> b, calls |-> 0, failAt |-> failAt, lists |-> 0, deletes |-> 0]

\* whether the next backend call fails
CallFails(w) == w.calls + 1 = w.failAt

(***************************************************************************)
(* File: directory listing.                                                *)
(***************************************************************************)
\* the prefix Readdir lists
ReaddirPrefix(file) ==
    LET name == TrimPrefix(file.name, Slash)
    IN  IF name # <<>> /\ ~HasSuffix(name, Slash) THEN name \o Slash ELSE name

\* what Readdir keeps of a page for the next call
ReaddirMark(file, output) ==
    [file EXCEPT !.readdirContinuationToken = output.NextContinuationToken,
                 !.readdirNotTruncated = IF ~output.IsTruncated THEN TRUE ELSE @]

\* a Readdir that keeps the keys ending in a slash
ReaddirEntriesWithMarker(output) ==
    LET dirs(cps) ==
            [i \in 1..Len(cps) |-> NewFileInfo(Base(Slash \o cps[i]), TRUE, 0)]
        files(objs) ==
            [i \in 1..Len(objs) |->
                NewFileInfo(Base(Slash \o objs[i].Key), FALSE, objs[i].Size)]
    IN  dirs(output.CommonPrefixes) \o files(output.Contents)

\* the entries Readdir makes of a page: the common prefixes, then the keys
\* that do not end in a slash
ReaddirEntries(output) ==
    LET dirs(cps) ==
            [i \in 1..Len(cps) |-> NewFileInfo(Base(Slash \o cps[i]), TRUE, 0)]
        files(objs) ==
            [i \in 1..Len(objs) |->
                NewFileInfo(Base(Slash \o objs[i].Key), FALSE, objs[i].Size)]
    IN  dirs(output.CommonPrefixes)
        \o files(SelectSeq(output.Contents,
                           LAMBDA o : ~HasSuffix(o.Key, Slash)))

\* a Readdir that takes a failed LIST for the end of the directory
ReaddirFailedExhausted(file, w1) ==
    [f |-> [file EXCEPT !.readdirNotTruncated = TRUE], fis |-> <<>>,
     err |-> "ErrBackend", w |-> w1]

\* Readdir when its LIST has failed: the error, no entry, the handle as it
\* was
ReaddirFailed(file, w1) ==
    [f |-> file, fis |-> <<>>, err |-> "ErrBackend", w |-> w1]

RECURSIVE Readdir(_, _, _)
RECURSIVE ReaddirAllLoop(_, _, _)
\* the loop of File.ReaddirAll
ReaddirAllLoop(file, w, fileInfos) ==
    LET page(r) ==
            IF r.err = "nil" THEN ReaddirAllLoop(r.f, r.w, fileInfos \o r.fis)
            ELSE IF r.err = "EOF"
            THEN [f |-> r.f, fis |-> fileInfos \o r.fis, err |-> "nil",
                  w |-> r.w]
            ELSE [f |-> r.f, fis |-> <<>>, err |-> r.err, w |-> r.w]
    IN  page(Readdir(file, w, ReaddirAllPage))

\* File.ReaddirAll
ReaddirAll(file, w) == ReaddirAllLoop(file, w, <<>>)

\* File.Readdir
Readdir(file, w, n) ==
    IF file.readdirNotTruncated
    THEN [f |-> file, fis |-> <<>>, err |-> "EOF", w |-> w]
    ELSE IF n <= 0 THEN ReaddirAll(file, w)
    ELSE LET w1 == [w EXCEPT !.calls = @ + 1, !.lists = @ + 1]
             listed(output) ==
                 [f |-> ReaddirMark(file, output),
                  fis |-> ReaddirEntries(output), err |-> "nil", w |-> w1]
         IN  IF CallFails(w)
             THEN ReaddirFailed(file, w1)
             ELSE listed(ListObjectsV2(w.bucket, ReaddirPrefix(file), TRUE,
                                       file.readdirContinuationToken, n))

\* a Readdirnames that drops Readdir's error
ReaddirnamesDroppingError(file, w, n) ==
    LET names(r) ==
            [f |-> r.f,
             names |-> [i \in 1..Len(r.fis) |-> SplitFile(r.fis[i].name)],
             err |-> "nil", w |-> r.w]
    IN  names(Readdir(file, w, n))

\* File.Readdirnames
Readdirnames(file, w, n) ==
    LET names(r) ==
            IF r.err # "nil"
            THEN [f |-> r.f, names |-> <<>>, err |-> r.err, w |-> r.w]
            ELSE [f |-> r.f,
                  names |-> [i \in 1..Len(r.fis) |->
                                SplitFile(r.fis[i].name)],
                  err |-> "nil", w |-> r.w]
    IN  names(Readdir(file, w, n))

(***************************************************************************)
(* Fs: removal.                                                            *)
(***************************************************************************)
\* a forceRemove that drops the error of the DELETE
forceRemoveDroppingError(w, in_name) ==
    LET name == GetPath(in_name)
        w1 == [w EXCEPT !.calls = @ + 1, !.deletes = @ + 1]
    IN  IF CallFails(w) THEN [w |-> w1, err |-> "nil"]
        ELSE [w |-> [w1 EXCEPT !.bucket = DeleteObject(w.bucket, name)],
              err |-> "nil"]

\* Fs.forceRemove
forceRemove(w, in_name) ==
    LET name == GetPath(in_name)
        w1 == [w EXCEPT !.calls = @ + 1, !.deletes = @ + 1]
    IN  IF CallFails(w) THEN [w |-> w1, err |-> "ErrBackend"]
        ELSE [w |-> [w1 EXCEPT !.bucket = DeleteObject(w.bucket, name)],
              err |-> "nil"]

\* an entry addressed by its name alone, without the directory
EntryPathBare(name, fi) == Slash \o fi.name

\* the path RemoveAll gives an entry of the directory
EntryPath(name, fi) == Join(name, fi.name)

RECURSIVE RemoveAll(_, _)
RECURSIVE RemoveAllLoop(_, _, _)
\* the loop of Fs.RemoveAll: the entries in order, stopping at the first
\* error (the sequence is halved to keep the evaluation shallow)
RemoveAllLoop(w, name, fis) ==
    IF fis = <<>> THEN [w |-> w, err |-> "nil"]
    ELSE IF Len(fis) = 1
    THEN LET entry(fi, fullpath) ==
                 IF fi.directory THEN RemoveAll(w, fullpath)
                 ELSE forceRemove(w, fullpath)
         IN  entry(fis[1], EntryPath(name, fis[1]))
    ELSE LET h == Len(fis) \div 2
             rest(r) ==
                 IF r.err # "nil" THEN r
                 ELSE RemoveAllLoop(r.w, name, SubSeq(fis, h + 1, Len(fis)))
         IN  rest(RemoveAllLoop(w, name, SubSeq(fis, 1, h)))

\* Fs.RemoveAll
RemoveAll(w, in_name) ==
    LET marker(s3dir, lp) ==
            IF lp.err # "nil" THEN lp
            ELSE forceRemove(lp.w, s3dir.name \o Slash)
        entries(s3dir, rd) ==
            IF rd.err # "nil" THEN [w |-> rd.w, err |-> rd.err]
            ELSE marker(s3dir, RemoveAllLoop(rd.w, s3dir.name, rd.fis))
        list(s3dir) == entries(s3dir, Readdir(s3dir, w, 0))
    IN  list(NewFile(GetPath(in_name)))

(***************************************************************************)
(* Fs: the other calls of the facade.  Each takes the world it starts in   *)
(* and returns the world it leaves.                                        *)
(***************************************************************************)
\* the zero FileInfo{} that accompanies a path error
ZeroInfo == NewFileInfo(<<>>, FALSE, 0)

\* Fs.Stat with its backend calls: the HEAD, and after a 404 the LIST of
\* statDirectory; a call that fails otherwise gives a path error
StatIn(w, in_name) ==
    LET w1 == [w EXCEPT !.calls = @ + 1]
        w2 == [w EXCEPT !.calls = @ + 2, !.lists = @ + 1]
        answer(st, wn) == [info |-> st.info, err |-> st.err, w |-> wn]
        failed(wn) == [info |-> ZeroInfo, err |-> "ErrBackend", w |-> wn]
        stat(name) ==
            IF name = Slash THEN answer(Stat(w.bucket, name), w)
            ELSE IF CallFails(w) THEN failed(w1)
            ELSE IF HeadObject(w.bucket, name)
            THEN answer(Stat(w.bucket, name), w1)
            ELSE IF CallFails(w1) THEN failed(w2)
            ELSE answer(Stat(w.bucket, name), w2)
    IN  stat(GetPath(in_name))

\* a Create that opens the handle without the empty PUT
CreateWithoutPut(w, in_name) ==
    LET opened(ow) ==
            [w |-> w, f |-> ow.f, err |-> ow.err, started |-> ow.err = "nil",
             req |-> NoInput]
    IN  opened(openWriteStream(NewFile(GetPath(in_name))))

\* Fs.Create: the empty PUT, the handle opened for writing, the wait for
\* the object to exist
Create(w, in_name) ==
    LET w1 == [w EXCEPT !.calls = @ + 1]
        w2 == [w EXCEPT !.calls = @ + 2]
        opened(name, ow) ==
            IF ow.err # "nil"
            THEN [w |-> [w1 EXCEPT !.bucket = PutObject(w.bucket, name, <<>>)],
                  f |-> ow.f, err |-> ow.err, started |-> FALSE,
                  req |-> PutObjectInput(fs.FileProps, name)]
            ELSE [w |-> [w2 EXCEPT !.bucket = PutObject(w.bucket, name, <<>>)],
                  f |-> ow.f,
                  err |-> IF CallFails(w1) THEN "ErrBackend" ELSE "nil",
                  started |-> TRUE,
                  req |-> PutObjectInput(fs.FileProps, name)]
        create(name) ==
            IF CallFails(w)
            THEN [w |-> w1, f |-> NoFile, err |-> "ErrBackend",
                  started |-> FALSE,
                  req |-> PutObjectInput(fs.FileProps, name)]
            ELSE opened(name, openWriteStream(NewFile(GetPath(name))))
    IN  create(GetPath(in_name))

\* Fs.Remove
Remove(w, in_name) ==
    LET remove(name, st) ==
            IF st.err # "nil" THEN [w |-> st.w, err |-> st.err]
            ELSE forceRemove(st.w, name)
        stat(name) == remove(name, StatIn(w, name))
    IN  stat(GetPath(in_name))

\* Fs.Mkdir: the marker is opened for writing and closed at once; Close
\* returns what the upload of the empty body returned
Mkdir(w, in_name) ==
    LET w1 == [w EXCEPT !.calls = @ + 1]
        close(file) ==
            IF CallFails(w)
            THEN [w |-> w1, err |-> CloseResult("ErrBackend")]
            ELSE [w |-> [w1 EXCEPT !.bucket =
                            PutObject(w.bucket, file.name,
                                      UploadAppend(<<>>, <<>>))],
                  err |-> CloseResult("nil")]
        open(ow) ==
            IF ow.err # "nil" THEN [w |-> w, err |-> ow.err] ELSE close(ow.f)
        mkdir(name) ==
            open(openWriteStream(NewFile(GetPath(Clean(name) \o Slash))))
    IN  mkdir(GetPath(in_name))

\* Fs.MkdirAll
MkdirAll(w, in_path) == Mkdir(w, GetPath(in_path))

\* a Chmod that reads the bits of the group
ChmodOfGroup(w, in_name, mode) ==
    LET put(name, acl) ==
            [w |-> [w EXCEPT !.calls = @ + 1],
             acl |-> [key |-> name, acl |-> acl],
             err |-> IF CallFails(w) THEN "ErrBackend"
                     ELSE IF ~HeadObject(w.bucket, name) THEN "ErrNoSuchKey"
                     ELSE "nil"]
        chmod(name, groupRead, groupWrite) ==
            IF groupRead /\ groupWrite THEN put(name, "public-read-write")
            ELSE IF groupRead THEN put(name, "public-read")
            ELSE put(name, "private")
    IN  chmod(GetPath(in_name), (mode \div 32) % 2 = 1, (mode \div 16) % 2 = 1)

\* Fs.Chmod: one PutObjectAcl with the canned ACL of the bits 1<<2 and
\* 1<<1 of the mode; the store answers NoSuchKey for a key it does not hold
Chmod(w, in_name, mode) ==
    LET put(name, acl) ==
            [w |-> [w EXCEPT !.calls = @ + 1],
             acl |-> [key |-> name, acl |-> acl],
             err |-> IF CallFails(w) THEN "ErrBackend"
                     ELSE IF ~HeadObject(w.bucket, name) THEN "ErrNoSuchKey"
                     ELSE "nil"]
        chmod(name, otherRead, otherWrite) ==
            IF otherRead /\ otherWrite THEN put(name, "public-read-write")
            ELSE IF otherRead THEN put(name, "public-read")
            ELSE put(name, "private")
    IN  chmod(GetPath(in_name), (mode \div 4) % 2 = 1, (mode \div 2) % 2 = 1)

\* a Rename that returns nil whatever the DELETE returned
RenameDeleteSwallowed(w2, oldname) ==
    IF CallFails(w2)
    THEN [w |-> [w2 EXCEPT !.calls = @ + 1, !.deletes = @ + 1], err |-> "nil"]
    ELSE [w |-> [w2 EXCEPT !.calls = @ + 1, !.deletes = @ + 1,
                           !.bucket = DeleteObject(w2.bucket, oldname)],
          err |-> "nil"]

\* the end of Fs.Rename: the DELETE of the old key, whose error is returned
RenameDelete(w2, oldname) ==
    IF CallFails(w2)
    THEN [w |-> [w2 EXCEPT !.calls = @ + 1, !.deletes = @ + 1],
          err |-> "ErrBackend"]
    ELSE [w |-> [w2 EXCEPT !.calls = @ + 1, !.deletes = @ + 1,
                           !.bucket = DeleteObject(w2.bucket, oldname)],
          err |-> "nil"]

\* a Rename that goes on to the DELETE when the COPY has failed
RenameCopyIgnoringError(w1, oldname, newname) ==
    LET copied(cp) ==
            IF CallFails(w1) \/ ~cp.ok
            THEN [w |-> [w1 EXCEPT !.calls = @ + 1], err |-> "nil"]
            ELSE [w |-> [w1 EXCEPT !.calls = @ + 1, !.bucket = cp.bucket],
                  err |-> "nil"]
    IN  copied(CopyObject(w1.bucket, BucketName \o oldname, newname))

\* the COPY of Fs.Rename, whose error is returned before any DELETE
RenameCopy(w1, oldname, newname) ==
    LET copied(cp) ==
            IF CallFails(w1)
            THEN [w |-> [w1 EXCEPT !.calls = @ + 1], err |-> "ErrBackend"]
            ELSE IF ~cp.ok
            THEN [w |-> [w1 EXCEPT !.calls = @ + 1], err |-> "ErrNoSuchKey"]
            ELSE [w |-> [w1 EXCEPT !.calls = @ + 1, !.bucket = cp.bucket],
                  err |-> "nil"]
    IN  copied(CopyObject(w1.bucket, BucketName \o oldname, newname))

RECURSIVE Rename(_, _, _)
RECURSIVE RenameLoop(_, _, _, _)
\* the loop of Fs.Rename over the children of a directory, stopping at the
\* first error
RenameLoop(w, in_oldname, in_newname, children) ==
    IF children = <<>> THEN [w |-> w, err |-> "nil"]
    ELSE LET rest(r) ==
                 IF r.err # "nil" THEN r
                 ELSE RenameLoop(r.w, in_oldname, in_newname, Tail(children))
         IN  rest(Rename(w, Join(in_oldname, Head(children).name),
                         Join(in_newname, Head(children).name)))

\* Fs.Rename: the children of a directory first, then COPY and DELETE
Rename(w, in_oldname, in_newname) ==
    LET delete(w2, oldname) == RenameDelete(w2, oldname)
        copied(c, oldname) ==
            IF c.err # "nil" THEN c ELSE delete(c.w, oldname)
        copy(w1, oldname, newname) ==
            copied(RenameCopy(w1, oldname, newname), oldname)
        moved(st, ch, lp, oldname, newname) ==
            IF lp.err # "nil" THEN lp
            ELSE IF Len(ch.fis) > 0 /\ st.err = "nil"
            THEN [w |-> lp.w, err |-> "nil"]
            ELSE copy(lp.w, oldname, newname)
        children(st, ch, oldname, newname) ==
            IF ch.err # "nil" THEN [w |-> ch.w, err |-> ch.err]
            ELSE moved(st, ch,
                       RenameLoop(ch.w, in_oldname, in_newname, ch.fis),
                       oldname, newname)
        stated(st, oldname, newname) ==
            IF ~st.info.ok THEN [w |-> st.w, err |-> "panic"]
            ELSE IF st.info.directory \/ st.err # "nil"
            THEN children(st, ReaddirAll(NewFile(oldname), st.w),
                          oldname, newname)
            ELSE copy(st.w, oldname, newname)
        rename(oldname, newname) ==
            IF oldname = newname THEN [w |-> w, err |-> "nil"]
            ELSE stated(StatIn(w, oldname), oldname, newname)
    IN  rename(GetPath(in_oldname), GetPath(in_newname))

(***************************************************************************)
(* Calls on the handle.                                                    *)
(***************************************************************************)
\* Fs.OpenFile
CallOpenFile(in_name, flag) ==
    /\ pc = "idle"
    /\ ~f.held \/ f.closed
    /\ \E name \in {GetPath(in_name)} :
       LET file == NewFile(name)
           r == [NoRet EXCEPT !.op = "OpenFile"]
       IN  IF Rejected(flag)
           THEN /\ f' = NoFile
                /\ ret' = [r EXCEPT !.err = "ErrNotSupported"]
                /\ gh' = [NoHistory EXCEPT !.written = gh.written]
                /\ UNCHANGED <<bucket, pipe, up, pc>>
           ELSE IF WriteMode(flag)
           THEN \E ow \in {openWriteStream(file)} :
                    /\ f' = ow.f
                    /\ ret' = [r EXCEPT !.err = ow.err]
                    /\ pipe' = NoPipe
                    /\ up' = [NoUpload EXCEPT
                                !.pc = "run", !.key = name,
                                !.input = UploadInput(fs.FileProps, name)]
                    /\ gh' = [NoHistory EXCEPT !.kind = "w",
                                               !.written = gh.written]
                    /\ UNCHANGED <<bucket, pc>>
           ELSE \E st \in {FileStat(bucket, file)} :
                \E rs \in {[r EXCEPT !.n = StatIn(NewWorld(bucket, 0),
                                                   name).w.calls]} :
                    /\ IF st.err # "nil"
                       THEN /\ f' = NoFile
                            /\ ret' = [rs EXCEPT !.err = st.err]
                            /\ gh' = [NoHistory EXCEPT !.written = gh.written]
                       ELSE IF st.info.directory
                       THEN /\ f' = st.f
                            /\ ret' = rs
                            /\ gh' = [NoHistory EXCEPT !.kind = "d",
                                                       !.trail = "fresh",
                                                       !.written = gh.written]
                       ELSE \E ors \in {openReadStream(st.f, 0)} :
                                /\ f' = ors.f
                                /\ ret' = [rs EXCEPT !.err = ors.err]
                                /\ gh' = [NoHistory EXCEPT
                                             !.kind = "r", !.trail = "fresh",
                                             !.written = gh.written]
                    /\ UNCHANGED <<bucket, pipe, up, pc>>
    /\ UNCHANGED fs

\* File.Read.  The bytes of a body are taken from the object the bucket
\* holds: a read of bytes the object no longer has (the cached size is that
\* of an object a later upload has made shorter) is left out.
CallRead(len) ==
    /\ pc = "idle"
    /\ f.held
    /\ \E getErr \in {"nil", "ErrBackend"}, k \in 1..len, eofNow \in BOOLEAN :
        LET left == IF f.streamRead.open
                    THEN f.streamRead.end - f.streamRead.pos + 1
                    ELSE MinOf(len, f.cachedInfo.sizeInBytes - f.streamReadOffset)
            tracked == gh.kind = "r" /\ gh.trail \in {"fresh", "reads", "seek"}
        IN  /\ k <= (IF left >= 1 THEN left ELSE 1)
            /\ f.streamRead.open => getErr = "nil"
            /\ (left >= 1 /\ getErr = "nil") =>
                  (IF f.streamRead.open THEN f.streamRead.pos
                   ELSE f.streamReadOffset) + k
                      <= Len(ObjectData(bucket, f.name))
            /\ \E r \in {Read(f, len, ObjectData(bucket, f.name), getErr, k,
                              eofNow)} :
                /\ f' = r.f
                /\ ret' = [NoRet EXCEPT !.op = "Read", !.n = r.n,
                                        !.data = r.data, !.err = r.err,
                                        !.closed = f.closed]
                /\ gh' = IF tracked
                         THEN [gh EXCEPT
                                  !.trail = IF gh.trail = "fresh" THEN "reads"
                                            ELSE gh.trail,
                                  !.got = gh.got \o r.data]
                         ELSE gh
    /\ UNCHANGED <<bucket, pipe, up, pc>>
    /\ UNCHANGED fs

\* File.Seek
CallSeek(offset, whence) ==
    /\ pc = "idle"
    /\ f.held
    /\ \E r \in {Seek(f, offset, whence)} :
           /\ r.n <= MaxSeek
           /\ f' = r.f
           /\ ret' = [NoRet EXCEPT !.op = "Seek", !.n = r.n, !.err = r.err,
                                   !.writing = f.streamWrite,
                                   !.closed = f.closed]
           /\ gh' = IF gh.kind = "r" /\ gh.trail = "fresh"
                       /\ whence = SeekStart /\ r.err = "nil"
                    THEN [gh EXCEPT !.trail = "seek", !.base = offset]
                    ELSE [gh EXCEPT !.trail = "other", !.base = 0, !.got = <<>>]
    /\ UNCHANGED <<bucket, pipe, up, pc>>
    /\ UNCHANGED fs

\* File.Stat
CallFileStat ==
    /\ pc = "idle"
    /\ f.held
    /\ \E st \in {FileStat(bucket, f)} :
           /\ f' = st.f
           /\ ret' = [NoRet EXCEPT !.op = "FileStat", !.err = st.err,
                                   !.info = st.info, !.closed = f.closed]
           /\ gh' = [gh EXCEPT !.trail = "other", !.base = 0, !.got = <<>>]
    /\ UNCHANGED <<bucket, pipe, up, pc>>
    /\ UNCHANGED fs

\* File.ReadAt: Seek(off, io.SeekStart), then Read
CallReadAt(len, off) ==
    /\ pc = "idle"
    /\ f.held
    /\ \E s \in {Seek(f, off, SeekStart)} :
        IF s.err # "nil"
        THEN /\ f' = s.f
             /\ ret' = [NoRet EXCEPT !.op = "ReadAt", !.err = s.err,
                                     !.writing = f.streamWrite,
                                     !.closed = f.closed]
        ELSE \E getErr \in {"nil", "ErrBackend"}, k \in 1..len,
                eofNow \in BOOLEAN :
            LET left == IF s.f.streamRead.open
                        THEN s.f.streamRead.end - s.f.streamRead.pos + 1
                        ELSE MinOf(len, s.f.cachedInfo.sizeInBytes
                                           - s.f.streamReadOffset)
            IN  /\ k <= (IF left >= 1 THEN left ELSE 1)
                /\ s.f.streamRead.open => getErr = "nil"
                /\ (left >= 1 /\ getErr = "nil") =>
                      (IF s.f.streamRead.open THEN s.f.streamRead.pos
                       ELSE s.f.streamReadOffset) + k
                          <= Len(ObjectData(bucket, f.name))
                /\ \E r \in {Read(s.f, len, ObjectData(bucket, f.name), getErr,
                                  k, eofNow)} :
                    /\ f' = r.f
                    /\ ret' = [NoRet EXCEPT !.op = "ReadAt", !.n = r.n,
                                            !.data = r.data, !.err = r.err,
                                            !.closed = f.closed]
    /\ gh' = [gh EXCEPT !.trail = "other", !.base = 0, !.got = <<>>]
    /\ UNCHANGED <<bucket, pipe, up, pc>>
    /\ UNCHANGED fs

\* File.WriteAt: Seek(off, 0), then Write
CallWriteAt(p, off) ==
    /\ pc = "idle"
    /\ f.held
    /\ Len(up.body) + Len(p) <= MaxSize
    /\ \E s \in {Seek(f, off, SeekStart)} :
        /\ f' = s.f
        /\ IF s.err # "nil"
           THEN /\ ret' = [NoRet EXCEPT !.op = "WriteAt", !.err = s.err,
                                        !.writing = f.streamWrite,
                                        !.closed = f.closed]
                /\ UNCHANGED <<pipe, pc>>
           ELSE IF ~s.f.streamWrite
           THEN /\ ret' = [NoRet EXCEPT !.op = "WriteAt", !.err = "panic"]
                /\ UNCHANGED <<pipe, pc>>
           ELSE IF pipe.wclosed
           THEN /\ ret' = [NoRet EXCEPT !.op = "WriteAt",
                                        !.err = WriteError(f, "ErrClosedPipe"),
                                        !.writing = TRUE]
                /\ UNCHANGED <<pipe, pc>>
           ELSE /\ pipe' = [pipe EXCEPT !.buf = p, !.p = p]
                /\ pc' = "Write"
                /\ UNCHANGED ret
    /\ gh' = [gh EXCEPT !.trail = "other", !.base = 0, !.got = <<>>]
    /\ UNCHANGED <<bucket, up>>
    /\ UNCHANGED fs

\* File.Write: the caller hands p to the pipe and blocks until the upload
\* goroutine has taken all of it or the pipe is closed
CallWrite(p) ==
    /\ pc = "idle"
    /\ f.held
    /\ Len(up.body) + Len(p) <= MaxSize
    /\ IF ~f.streamWrite
       THEN /\ ret' = [NoRet EXCEPT !.op = "Write", !.err = "panic"]
            /\ UNCHANGED <<pipe, pc>>
       ELSE IF pipe.wclosed
       THEN /\ ret' = [NoRet EXCEPT !.op = "Write",
                                    !.err = WriteError(f, "ErrClosedPipe"),
                                    !.writing = TRUE]
            /\ UNCHANGED <<pipe, pc>>
       ELSE /\ pipe' = [pipe EXCEPT !.buf = p, !.p = p]
            /\ pc' = "Write"
            /\ UNCHANGED ret
    /\ UNCHANGED <<bucket, f, up, gh>>
    /\ UNCHANGED fs

\* the upload goroutine reads k bytes from the pipe; the Write in progress
\* returns when its last byte has been taken
PipeRead(k) ==
    /\ up.pc = "run"
    /\ pc = "Write"
    /\ k \in 1..Len(pipe.buf)
    /\ up' = [up EXCEPT !.body = UploadAppend(up.body, SubSeq(pipe.buf, 1, k))]
    /\ pipe' = [pipe EXCEPT !.buf = SubSeq(pipe.buf, k + 1, Len(pipe.buf))]
    /\ IF k = Len(pipe.buf)
       THEN /\ pc' = "idle"
            /\ ret' = [NoRet EXCEPT !.op = "Write", !.n = Len(pipe.p),
                                    !.writing = TRUE]
            /\ gh' = [gh EXCEPT !.accepted = gh.accepted \o pipe.p,
                                 !.writes = gh.writes + 1]
       ELSE UNCHANGED <<pc, ret, gh>>
    /\ UNCHANGED <<bucket, f>>
    /\ UNCHANGED fs

\* an upload goroutine that records the error of uploader.Upload and does
\* not close the pipe writer
UploadFailKeepingPipe ==
    /\ up.pc = "run"
    /\ up' = [up EXCEPT !.pc = "send", !.err = "ErrBackend"]
    /\ f' = [f EXCEPT !.streamWriteErr = "ErrBackend"]
    /\ UNCHANGED <<bucket, pipe, pc, ret, gh>>
    /\ UNCHANGED fs

\* uploader.Upload returns an error: the goroutine records it, closes the
\* pipe writer (a blocked Write returns) and waits to hand the error to Close
UploadFail ==
    /\ up.pc = "run"
    /\ up' = [up EXCEPT !.pc = "send", !.err = "ErrBackend"]
    /\ f' = [f EXCEPT !.streamWriteErr = "ErrBackend"]
    /\ pipe' = [pipe EXCEPT !.buf = <<>>, !.wclosed = TRUE]
    /\ IF pc = "Write"
       THEN /\ pc' = "idle"
            /\ ret' = [NoRet EXCEPT !.op = "Write",
                                    !.err = WriteError(f', "ErrClosedPipe"),
                                    !.writing = TRUE]
       ELSE UNCHANGED <<pc, ret>>
    /\ UNCHANGED <<bucket, gh>>
    /\ UNCHANGED fs

\* uploader.Upload has read the pipe to its end and returns nil: the object
\* holds what was read
UploadDone ==
    /\ up.pc = "run"
    /\ pipe.wclosed
    /\ pipe.buf = <<>>
    /\ bucket' = PutObject(bucket, up.key, up.body)
    /\ up' = [up EXCEPT !.pc = "send", !.err = "nil"]
    /\ UNCHANGED <<f, pipe, pc, ret, gh>>
    /\ UNCHANGED fs

\* File.Close, up to the point where it waits for the upload
CallClose ==
    /\ pc = "idle"
    /\ f.held
    /\ LET f1 == [f EXCEPT !.closed = TRUE, !.streamRead = NoBody]
       IN  IF ~f.streamWrite
           THEN /\ f' = f1
                /\ ret' = [NoRet EXCEPT !.op = "Close"]
                /\ UNCHANGED <<pipe, pc>>
           ELSE /\ f' = f1
                /\ pipe' = [pipe EXCEPT !.wclosed = TRUE]
                /\ pc' = "Close"
                /\ UNCHANGED ret
    /\ UNCHANGED <<bucket, up, gh>>
    /\ UNCHANGED fs

\* File.Close receives the upload's result and returns it
CloseReturn ==
    /\ pc = "Close"
    /\ up.pc = "send"
    /\ LET err == CloseResult(up.err)
       IN  /\ ret' = [NoRet EXCEPT !.op = "Close", !.err = err,
                                   !.writing = TRUE]
           /\ gh' = IF err = "nil"
                    THEN [gh EXCEPT !.written = [ok |-> TRUE, data |-> gh.accepted,
                                                 writes |-> gh.writes]]
                    ELSE gh
    /\ up' = [up EXCEPT !.pc = "done"]
    /\ f' = [f EXCEPT !.streamWrite = FALSE, !.streamWriteCloseErr = FALSE]
    /\ pc' = "idle"
    /\ UNCHANGED <<bucket, pipe>>
    /\ UNCHANGED fs

\* File.Readdir
CallReaddir(n) ==
    /\ pc = "idle"
    /\ f.held
    /\ f.readdirNotTruncated \/ n <= 0 \/ gh.returned < MaxEntries
    /\ \E failAt \in 0..MaxFail :
        \E r \in {Readdir(f, NewWorld(bucket, failAt), n)} :
        LET tracked == /\ gh.kind = "d"
                       /\ \/ gh.trail \in {"fresh", "paged"} /\ n > 0
                          \/ gh.trail = "fresh" /\ n <= 0
        IN  /\ f' = r.f
            /\ ret' = [NoRet EXCEPT !.op = "Readdir", !.n = Len(r.fis),
                                    !.data = r.fis, !.err = r.err,
                                    !.lists = r.w.lists, !.closed = f.closed]
            /\ gh' = IF tracked
                     THEN [gh EXCEPT !.trail = IF n > 0 THEN "paged" ELSE "all",
                                     !.got = gh.got \o r.fis,
                                     !.returned = gh.returned + Len(r.fis),
                                     !.failAt = IF r.err = "ErrBackend"
                                                THEN 1 ELSE @]
                     ELSE [gh EXCEPT !.trail = "other", !.got = <<>>,
                                     !.returned = gh.returned + Len(r.fis)]
    /\ UNCHANGED <<bucket, pipe, up, pc>>
    /\ UNCHANGED fs

\* File.Readdirnames
CallReaddirnames(n) ==
    /\ pc = "idle"
    /\ f.held
    /\ f.readdirNotTruncated \/ n <= 0 \/ gh.returned < MaxEntries
    /\ \E failAt \in 0..MaxFail :
        \E r \in {Readdirnames(f, NewWorld(bucket, failAt), n)} :
            /\ f' = r.f
            /\ ret' = [NoRet EXCEPT !.op = "Readdirnames", !.n = Len(r.names),
                                    !.data = r.names, !.err = r.err,
                                    !.lists = r.w.lists, !.closed = f.closed]
            /\ gh' = [gh EXCEPT !.trail = "other", !.got = <<>>,
                                !.returned = gh.returned + Len(r.names)]
    /\ UNCHANGED <<bucket, pipe, up, pc>>
    /\ UNCHANGED fs

\* Fs.RemoveAll; the history keeps the number of the call that failed, if
\* that call was made
CallRemoveAll(in_name) ==
    /\ pc = "idle"
    /\ \E failAt \in 0..MaxRemoveFail :
        \E r \in {RemoveAll(NewWorld(bucket, failAt), in_name)} :
            /\ bucket' = r.w.bucket
            /\ ret' = [NoRet EXCEPT !.op = "RemoveAll", !.err = r.err,
                                    !.n = r.w.deletes, !.lists = r.w.lists]
            /\ gh' = [NoHistory EXCEPT !.kind = "fs", !.path = in_name,
                                       !.before = bucket,
                                       !.failAt = IF failAt <= r.w.calls
                                                  THEN failAt ELSE 0,
                                       !.written = gh.written]
    /\ UNCHANGED <<f, pipe, up, pc>>
    /\ UNCHANGED fs

(***************************************************************************)
(* Calls on the facade.                                                    *)
(***************************************************************************)
\* what the history keeps of a call on the facade
FacadeCall(in_name, to) ==
    [NoHistory EXCEPT !.kind = "fs", !.path = in_name, !.to = to,
                      !.before = bucket, !.written = gh.written]

\* Fs.Stat
CallStat(in_name) ==
    /\ pc = "idle"
    /\ \E failAt \in 0..MaxFail :
        \E r \in {StatIn(NewWorld(bucket, failAt), in_name)} :
            /\ ret' = [NoRet EXCEPT !.op = "Stat", !.err = r.err,
                                    !.info = r.info, !.n = r.w.calls,
                                    !.lists = r.w.lists]
            /\ gh' = FacadeCall(in_name, <<>>)
    /\ UNCHANGED <<bucket, f, pipe, up, pc>>
    /\ UNCHANGED fs

\* Fs.Create
CallCreate(in_name) ==
    /\ pc = "idle"
    /\ ~f.held \/ f.closed
    /\ \E failAt \in 0..MaxFail :
        \E r \in {Create(NewWorld(bucket, failAt), in_name)} :
            /\ bucket' = r.w.bucket
            /\ f' = r.f
            /\ IF r.started
               THEN /\ pipe' = NoPipe
                    /\ up' = [NoUpload EXCEPT
                                !.pc = "run", !.key = r.f.name,
                                !.input = UploadInput(fs.FileProps, r.f.name)]
               ELSE UNCHANGED <<pipe, up>>
            /\ ret' = [NoRet EXCEPT !.op = "Create", !.err = r.err,
                                    !.n = r.w.calls, !.writing = r.started,
                                    !.req = r.req]
            /\ gh' = FacadeCall(in_name, <<>>)
    /\ UNCHANGED pc
    /\ UNCHANGED fs

\* Fs.Remove
CallRemove(in_name) ==
    /\ pc = "idle"
    /\ \E failAt \in 0..MaxFail :
        \E r \in {Remove(NewWorld(bucket, failAt), in_name)} :
            /\ bucket' = r.w.bucket
            /\ ret' = [NoRet EXCEPT !.op = "Remove", !.err = r.err,
                                    !.n = r.w.deletes, !.lists = r.w.lists]
            /\ gh' = FacadeCall(in_name, <<>>)
    /\ UNCHANGED <<f, pipe, up, pc>>
    /\ UNCHANGED fs

\* Fs.Mkdir
CallMkdir(in_name) ==
    /\ pc = "idle"
    /\ \E failAt \in 0..MaxFail :
        \E r \in {Mkdir(NewWorld(bucket, failAt), in_name)} :
            /\ bucket' = r.w.bucket
            /\ ret' = [NoRet EXCEPT !.op = "Mkdir", !.err = r.err,
                                    !.n = r.w.calls]
            /\ gh' = FacadeCall(in_name, <<>>)
    /\ UNCHANGED <<f, pipe, up, pc>>
    /\ UNCHANGED fs

\* Fs.MkdirAll
CallMkdirAll(in_path) ==
    /\ pc = "idle"
    /\ \E failAt \in 0..MaxFail :
        \E r \in {MkdirAll(NewWorld(bucket, failAt), in_path)} :
            /\ bucket' = r.w.bucket
            /\ ret' = [NoRet EXCEPT !.op = "MkdirAll", !.err = r.err,
                                    !.n = r.w.calls]
            /\ gh' = FacadeCall(in_path, <<>>)
    /\ UNCHANGED <<f, pipe, up, pc>>
    /\ UNCHANGED fs

\* Fs.Chmod
CallChmod(in_name, mode) ==
    /\ pc = "idle"
    /\ \E failAt \in 0..MaxFail :
        \E r \in {Chmod(NewWorld(bucket, failAt), in_name, mode)} :
            /\ bucket' = r.w.bucket
            /\ ret' = [NoRet EXCEPT !.op = "Chmod", !.err = r.err,
                                    !.n = r.w.calls, !.acl = r.acl]
            /\ gh' = [FacadeCall(in_name, <<>>) EXCEPT !.mode = mode]
    /\ UNCHANGED <<f, pipe, up, pc>>
    /\ UNCHANGED fs

\* the caller assigns the exported field Fs.FileProps, between two calls
SetFileProps(p) ==
    /\ pc = "idle"
    /\ ~f.held \/ f.closed
    /\ fs' = [fs EXCEPT !.FileProps = p]
    /\ UNCHANGED <<bucket, f, pipe, up, pc, ret, gh>>

\* Fs.Rename; the HEAD, the COPY or the DELETE of a file may fail
CallRename(in_oldname, in_newname) ==
    /\ pc = "idle"
    /\ \E failAt \in 0..(MaxFail + 1) :
        \E r \in {Rename(NewWorld(bucket, failAt), in_oldname, in_newname)} :
            /\ bucket' = r.w.bucket
            /\ ret' = [NoRet EXCEPT !.op = "Rename", !.err = r.err,
                                    !.n = r.w.calls, !.lists = r.w.lists,
                                    !.deletes = r.w.deletes]
            /\ gh' = FacadeCall(in_oldname, in_newname)
    /\ UNCHANGED <<f, pipe, up, pc>>
    /\ UNCHANGED fs

(***************************************************************************)
(* Specifications of the file handle: one path, one handle at a time.      *)
(***************************************************************************)
EmptyBucket == [k \in {} |-> [data |-> <<>>]]

FilePath == <<"/", "f">>

Idle ==
    /\ fs = NewFs
    /\ f = NoFile
    /\ pipe = NoPipe
    /\ up = NoUpload
    /\ pc = "idle"
    /\ ret = NoRet
    /\ gh = NoHistory

\* the upload goroutine and the return of a blocked Close
Background ==
    \/ UploadFail
    \/ UploadDone
    \/ CloseReturn

(* SpecWrite: the bucket starts empty; the path is written through the     *)
(* pipe, closed, and read back from the start.                             *)
InitWrite ==
    /\ bucket = EmptyBucket
    /\ Idle

NextWrite ==
    /\ ~Crashed
    /\ \/ \E flag \in SUBSET Flags : CallOpenFile(FilePath, flag)
       \/ \E len \in 1..MaxBuf : CallRead(len)
       \/ \E p \in ByteSeqs(1, MaxBuf) : CallWrite(p)
       \/ \E k \in 1..MaxBuf : PipeRead(k)
       \/ CallClose
       \/ Background

SpecWrite == InitWrite /\ [][NextWrite]_vars

(* SpecRead: the path holds an object whose i-th byte is i (or no object); *)
(* it is opened, read, sought and closed.  A handle opened for writing is  *)
(* closed without a Write.                                                 *)
InitRead ==
    /\ \E size \in 0..MaxSize :
          bucket \in {EmptyBucket,
                      PutObject(EmptyBucket, FilePath, [i \in 1..size |-> i])}
    /\ Idle

NextRead ==
    /\ ~Crashed
    /\ \/ \E flag \in SUBSET Flags : CallOpenFile(FilePath, flag)
       \/ \E len \in 1..MaxBuf : CallRead(len)
       \/ \E offset \in (-MaxBack)..MaxSeek, whence \in Whences :
            /\ whence \notin {SeekStart, SeekCurrent, SeekEnd} => offset = 0
            /\ CallSeek(offset, whence)
       \/ CallClose
       \/ Background

SpecRead == InitRead /\ [][NextRead]_vars

(***************************************************************************)
(* Specifications of directories: buckets over a small tree of keys, and   *)
(* one bucket with a directory larger than a ReaddirAll page.              *)
(***************************************************************************)
\* markers are empty objects, files hold one byte
MakeBucket(S) ==
    [k \in S |-> [data |-> IF HasSuffix(k, Slash) THEN <<>> ELSE <<1>>]]

SmallKeys == {SmallKeySeq[i] : i \in 1..Len(SmallKeySeq)}
BigKeys == {BigKeySeq[i] : i \in 1..Len(BigKeySeq)}

Buckets == {MakeBucket(S) : S \in SUBSET SmallKeys} \cup {MakeBucket(BigKeys)}

DirPaths ==
    { <<"/">>, <<"/", "d">>, <<"/", "d", "/", "s">>, <<"/", "b">>,
      <<"/", "f">> }

InitDir ==
    /\ bucket \in Buckets
    /\ Idle

NextDir ==
    /\ ~Crashed
    /\ \/ \E p \in DirPaths : CallOpenFile(p, {})
       \/ \E n \in 0..MaxN : CallReaddir(n)
       \/ \E n \in 0..MaxN : CallReaddirnames(n)
       \/ CallClose

SpecDir == InitDir /\ [][NextDir]_vars

InitFs ==
    /\ bucket \in Buckets
    /\ Idle

NextFs ==
    /\ ~Crashed
    /\ \E p \in DirPaths : CallRemoveAll(p)

SpecFs == InitFs /\ [][NextFs]_vars

(***************************************************************************)
(* Specification of the facade: files and markers at four paths, two of    *)
(* which share a prefix ("/f" and "/fa").                                  *)
(***************************************************************************)
FacadePaths ==
    { <<"/", "f">>, <<"/", "f", "a">>, <<"/", "d">>, <<"/", "d", "/", "a">> }

\* the pairs Rename is called with: a file onto a name it is a prefix of
\* and back, a file onto itself, a file into and out of a directory
RenamePairs ==
    { << <<"/", "f">>, <<"/", "f", "a">> >>,
      << <<"/", "f", "a">>, <<"/", "f">> >>,
      << <<"/", "f">>, <<"/", "f">> >>,
      << <<"/", "d", "/", "a">>, <<"/", "f">> >>,
      << <<"/", "f">>, <<"/", "d", "/", "a">> >> }

\* markers are empty, the file fa holds two bytes, the others one
FacadeBucket(S) ==
    [k \in S |-> [data |-> IF HasSuffix(k, Slash) THEN <<>>
                           ELSE IF k = <<"f", "a">> THEN <<1, 2>>
                           ELSE <<1>>]]

FacadeBuckets ==
    {FacadeBucket(S) :
        S \in SUBSET { <<"f">>, <<"f", "a">>, <<"d", "/">>,
                       <<"d", "/", "a">> }}

InitFacade ==
    /\ bucket \in FacadeBuckets
    /\ Idle

NextFacade ==
    /\ ~Crashed
    /\ \/ \E p \in FacadePaths : CallStat(p)
       \/ \E p \in FacadePaths : CallRemove(p)
       \/ \E p \in FacadePaths : CallMkdir(p)
       \/ \E p \in FacadePaths : CallMkdirAll(p)
       \/ \E a \in RenamePairs : CallRename(a[1], a[2])

SpecFacade == InitFacade /\ [][NextFacade]_vars

(* SpecRename: a directory /d with or without its marker, a file, a        *)
(* subdirectory and a file in it, is renamed to /e and back; the marker is *)
(* made by Mkdir, and Stat is asked for the names with and without a       *)
(* trailing slash.                                                         *)
RenameTree ==
    { <<"d", "/">>, <<"d", "/", "a">>, <<"d", "/", "s", "/">>,
      <<"d", "/", "s", "/", "a">> }

\* markers are empty; the file of the subdirectory holds another byte than
\* the file of the directory
RenameBucket(S) ==
    [k \in S |-> [data |-> IF HasSuffix(k, Slash) THEN <<>>
                           ELSE IF k = <<"d", "/", "a">> THEN <<1>>
                           ELSE <<2>>]]

DirD == <<"/", "d">>
DirE == <<"/", "e">>
DirDSlash == <<"/", "d", "/">>

InitRename ==
    /\ bucket \in {RenameBucket(S) : S \in SUBSET RenameTree}
    /\ Idle

NextRename ==
    /\ ~Crashed
    /\ \/ CallRename(DirD, DirE)
       \/ CallRename(DirE, DirD)
       \/ \E p \in {DirD, DirE, DirDSlash} : CallStat(p)
       \/ CallMkdir(DirD)

SpecRename == InitRename /\ [][NextRename]_vars

(* SpecHandle: the path holds an object of two bytes or none; a handle is  *)
(* opened in any mode and every call of the handle is made on it, in any   *)
(* order, with one-byte writes and offsets inside the object.              *)
InitHandle ==
    /\ bucket \in {EmptyBucket, PutObject(EmptyBucket, FilePath, <<1, 2>>)}
    /\ Idle

NextHandle ==
    /\ ~Crashed
    /\ \/ \E flag \in SUBSET Flags : CallOpenFile(FilePath, flag)
       \/ CallFileStat
       \/ \E len \in 1..MaxBuf : CallRead(len)
       \/ \E len \in 1..MaxBuf, off \in (-1)..1 : CallReadAt(len, off)
       \/ CallWrite(<<1>>)
       \/ \E off \in (-1)..1 : CallWriteAt(<<1>>, off)
       \/ PipeRead(1)
       \/ \E offset \in (-1)..1 : CallSeek(offset, SeekStart)
       \/ CallReaddir(1)
       \/ CallClose
       \/ Background

SpecHandle == InitHandle /\ [][NextHandle]_vars

(* SpecChmod: Chmod is called on two paths, each an object of the bucket   *)
(* or not, with every mode of the group's and the others' bits.            *)
ChmodPaths == { <<"/", "f">>, <<"/", "f", "a">> }

InitChmod ==
    /\ bucket \in {FacadeBucket(S) : S \in SUBSET { <<"f">>, <<"f", "a">> }}
    /\ Idle

NextChmod ==
    /\ ~Crashed
    /\ \E p \in ChmodPaths, mode \in 0..MaxMode : CallChmod(p, mode)

SpecChmod == InitChmod /\ [][NextChmod]_vars

(* SpecProps: the caller sets FileProps; objects are created, and written   *)
(* through a handle, at a path with an extension and at one without (the   *)
(* dot is in its directory).                                               *)
PropsPaths ==
    { <<"/", "a", ".", "c", "s", "s">>, <<"/", "d", ".", "p", "n", "g", "/", "a">> }

\* the values FileProps is given: each field set or not
PropsConfigs ==
    {NoProps} \cup
    [set : {TRUE}, ACL : {NoStr, "public-read"},
     CacheControl : {NoStr, "max-age=300"},
     ContentType : {NoStr, "my-type"}]

InitProps ==
    /\ bucket = EmptyBucket
    /\ Idle

NextProps ==
    /\ ~Crashed
    /\ \/ \E p \in PropsConfigs : SetFileProps(p)
       \/ \E p \in PropsPaths : CallCreate(p)
       \/ \E p \in PropsPaths : CallOpenFile(p, {"O_WRONLY"})
       \/ CallClose
       \/ Background

SpecProps == InitProps /\ [][NextProps]_vars

(* SpecCreate: files are created at two paths, looked at, removed, and the *)
(* handle Create returned is closed.                                       *)
CreatePaths == { <<"/", "f">>, <<"/", "f", "a">> }

InitCreate ==
    /\ bucket \in {MakeBucket(S) : S \in SUBSET { <<"f">>, <<"f", "a">> }}
    /\ Idle

NextCreate ==
    /\ ~Crashed
    /\ \/ \E p \in CreatePaths : CallCreate(p)
       \/ \E p \in CreatePaths : CallStat(p)
       \/ \E p \in CreatePaths : CallRemove(p)
       \/ CallClose
       \/ Background

SpecCreate == InitCreate /\ [][NextCreate]_vars

\* every key a bucket holds is one LIST knows the place of
KeysListed == \A k \in Keys(bucket) : \E i \in 1..Len(KeyOrder) : KeyOrder[i] = k

(***************************************************************************)
(* Claims on the file handle.                                              *)
(***************************************************************************)
TheObject == ObjectData(bucket, FilePath)
TheSize == Len(TheObject)

\* the offsets and whence values Seek is called with
SeekArgs ==
    {a \in ((-MaxBack)..MaxSeek) \X Whences :
        a[2] \notin {SeekStart, SeekCurrent, SeekEnd} => a[1] = 0}

C2_CloseBarrier ==
    (ret.op = "Close" /\ ret.writing)
        => (up.pc = "done" /\ ret.err = up.err)

C2_Witness ==
    /\ ret.op = "Close" /\ ret.writing
    /\ ret.err = "ErrBackend"
    /\ gh.writes >= 1
    /\ Len(gh.accepted) = MaxSize

C4_ReadEndOfFile ==
    (gh.kind = "r" /\ ret.op = "Read" /\ ret.err # "panic")
        => /\ (ret.err = "EOF") <=> (f.streamReadOffset >= f.cachedInfo.sizeInBytes)
           /\ Len(ret.data) = ret.n
           /\ ret.n = 0 => ret.err # "nil"

\* the part of C4 that holds: end-of-file exactly at the cached size
C4_EofExactlyAtSize ==
    (gh.kind = "r" /\ ret.op = "Read" /\ ret.err # "panic")
        => /\ (ret.err = "EOF") <=> (f.streamReadOffset >= f.cachedInfo.sizeInBytes)
           /\ Len(ret.data) = ret.n

\* the offset Seek is to compute on a read handle
SeekTarget(file, offset, whence) ==
    CASE whence = SeekStart -> offset
      [] whence = SeekCurrent -> file.streamReadOffset + offset
      [] whence = SeekEnd -> file.cachedInfo.sizeInBytes - offset

\* Seek computes and returns the offset the claim names, fails with
\* InvalidSeek exactly when it is negative, and otherwise stores it
SeekComputes ==
    (gh.kind = "r" /\ ~f.closed) =>
        \A a \in SeekArgs :
            a[2] \in {SeekStart, SeekCurrent, SeekEnd} =>
                LET r == Seek(f, a[1], a[2])
                    t == SeekTarget(f, a[1], a[2])
                IN  /\ r.n = t
                    /\ (t < 0) <=> (r.err = "ErrInvalidSeek")
                    /\ (t >= 0) <=> (r.err = "nil")
                    /\ r.f.streamReadOffset = IF t < 0 THEN f.streamReadOffset ELSE t

\* C5: Seek on a read handle returns the computed offset (SeekStart: the
\* value; SeekCurrent: offset plus value; SeekEnd: size minus value), fails
\* with InvalidSeek when it is negative, and the next Read returns the
\* object's bytes from that offset on.
C5_SeekSetsReadPosition ==
    [][/\ SeekComputes
       /\ (gh.kind = "r" /\ ret.op = "Seek" /\ ret.err = "nil"
            /\ ret'.op = "Read" /\ ret'.err \in {"nil", "EOF"})
            => ret'.data = SubSeq(TheObject, ret.n + 1, ret.n + ret'.n)]_vars

\* C6: a Seek of a read handle to an offset at or beyond the size succeeds,
\* and the next Read returns zero bytes and end-of-file; only a negative
\* offset is an InvalidSeek.
C6_SeekPastEnd ==
    [][/\ SeekComputes
       /\ (gh.kind = "r" /\ ret.op = "Seek" /\ ret.err = "nil"
            /\ ret.n >= TheSize /\ ret'.op = "Read")
            => (ret'.n = 0 /\ ret'.data = <<>> /\ ret'.err = "EOF")]_vars

\* C7: a Seek on a closed handle fails with ErrFileClosed, a Seek on a
\* handle with a live write stream fails with ErrNotSupported, and neither
\* changes the handle.
C7_SeekRejected ==
    [][\A a \in SeekArgs :
        CallSeek(a[1], a[2]) =>
            /\ f.closed => (ret'.err = "ErrFileClosed" /\ f' = f)
            /\ (~f.closed /\ f.streamWrite)
                  => (ret'.err = "ErrNotSupported" /\ f' = f)]_vars

C7_Witness ==
    /\ ret.op = "Seek" /\ ret.closed
    /\ ret.err = "ErrFileClosed"
    /\ gh.kind = "r"
    /\ f.streamReadOffset > 0

C7_WitnessWriting ==
    /\ ret.op = "Seek" /\ ret.writing /\ ~ret.closed
    /\ ret.err = "ErrNotSupported"

(***************************************************************************)
(* Claims on directories.                                                  *)
(***************************************************************************)
Range(seq) == {seq[i] : i \in 1..Len(seq)}

NoDuplicates(seq) == Cardinality(Range(seq)) = Len(seq)

\* whether a key lies under the directory of a path
UnderDir(k, path) ==
    IF BKey(path) = <<>> THEN TRUE
    ELSE HasPrefix(k, BKey(path) \o Slash)

\* the entries of a directory: one directory entry per sub-prefix, one
\* file entry per object directly under it, the marker key left out
DirEntries(b, path) ==
    LET p == IF BKey(path) = <<>> THEN <<>> ELSE BKey(path) \o Slash
        under == {k \in Keys(b) : HasPrefix(k, p) /\ k # p}
        entry(k) ==
            LET segs == SplitSlash(SubSeq(k, Len(p) + 1, Len(k)))
            IN  IF Len(segs) > 1
                THEN [ok |-> TRUE, name |-> segs[1], directory |-> TRUE,
                      sizeInBytes |-> 0]
                ELSE [ok |-> TRUE, name |-> segs[1], directory |-> FALSE,
                      sizeInBytes |-> Len(b[k].data)]
    IN  {entry(k) : k \in under}

\* C8: the pieces returned by Readdir(n), n > 0, on one directory handle
\* hold no entry twice and only entries of the directory, and hold them all
\* when end-of-sequence is returned; one Readdir(n <= 0) on a fresh handle
\* returns exactly the directory's entries.
C8_ReaddirPartition ==
    (gh.kind = "d" /\ ret.op = "Readdir") =>
        LET entries == DirEntries(bucket, f.name)
        IN  /\ gh.trail = "paged" =>
                /\ NoDuplicates(gh.got)
                /\ Range(gh.got) \subseteq entries
                /\ ret.err = "EOF" => Range(gh.got) = entries
            /\ (gh.trail = "all" /\ ret.err = "nil") =>
                /\ NoDuplicates(gh.got)
                /\ Range(gh.got) = entries

C8_Witness ==
    /\ gh.kind = "d" /\ gh.trail = "paged"
    /\ ret.op = "Readdir" /\ ret.err = "EOF"
    /\ <<"d", "/">> \in Keys(bucket)
    /\ Len(gh.got) = 2
    /\ \E i, j \in 1..2 : gh.got[i].directory /\ ~gh.got[j].directory

\* a single Readdir(0) that needed more than one page
C8_WitnessAll ==
    /\ gh.kind = "d" /\ gh.trail = "all"
    /\ ret.op = "Readdir" /\ ret.err = "nil"
    /\ ret.lists >= 2
    /\ Len(gh.got) > ReaddirAllPage

\* C9: the Readdir call after which the lister is exhausted returns its
\* entries with a nil error; a Readdir call that returns the last entries
\* marks the lister exhausted; every Readdir or Readdirnames call on an
\* exhausted lister returns end-of-sequence, no entry, and issues no LIST.
C9_ExhaustedLister ==
    [][(ret'.op \in {"Readdir", "Readdirnames"}) =>
        /\ f.readdirNotTruncated =>
            /\ ret'.err = "EOF" /\ ret'.data = <<>> /\ ret'.lists = 0
            /\ f' = f
        /\ (ret'.op = "Readdir" /\ ~f.readdirNotTruncated
                /\ f'.readdirNotTruncated) =>
            /\ ret'.err = "nil"
            /\ gh'.trail \in {"paged", "all"} =>
                   Range(gh'.got) = DirEntries(bucket, f.name)
        /\ (ret'.op = "Readdir" /\ ~f.readdirNotTruncated /\ ret'.err = "nil"
                /\ ret'.n > 0 /\ gh'.trail = "paged"
                /\ Range(gh'.got) = DirEntries(bucket, f.name)) =>
            f'.readdirNotTruncated]_vars

C9_Witness ==
    /\ gh.kind = "d"
    /\ ret.op = "Readdirnames" /\ ret.err = "EOF" /\ ret.lists = 0
    /\ f.readdirNotTruncated
    /\ gh.returned >= 2

(***************************************************************************)
(* Claims on the facade.                                                   *)
(***************************************************************************)
\* C10: after RemoveAll(d) has returned nil on a directory d, no key under
\* d/ is left, the marker d/ included.
C10_RemoveAllLeavesNothing ==
    (ret.op = "RemoveAll" /\ ret.err = "nil"
        /\ \E k \in Keys(gh.before) : UnderDir(k, gh.path))
        => \A k \in Keys(bucket) : ~UnderDir(k, gh.path)

C10_Witness ==
    /\ ret.op = "RemoveAll" /\ ret.err = "nil"
    /\ gh.path = <<"/", "b">>
    /\ gh.before = MakeBucket(BigKeys)
    /\ ret.lists >= 3
    /\ ret.n > ReaddirAllPage
    /\ Keys(bucket) = {}

\* a RemoveAll of a directory with a marker, a file and nested directories
C10_WitnessNested ==
    /\ ret.op = "RemoveAll" /\ ret.err = "nil"
    /\ gh.path = <<"/", "d">>
    /\ SmallKeys \ {<<"f">>} \subseteq Keys(gh.before)
    /\ Keys(bucket) \subseteq {<<"f">>}

\* whether a path names an object that is a plain file
PlainFile(b, path) == BKey(path) \in Keys(b) /\ ~HasSuffix(path, Slash)

\* a Rename of a plain file onto another name that returned nil
RenamedFile ==
    /\ ret.op = "Rename" /\ ret.err = "nil"
    /\ gh.path # gh.to
    /\ PlainFile(gh.before, gh.path)

\* C11: after Rename(A, B) has returned nil for an existing plain file A,
\* A # B, Stat(A) reports NotExist and Stat(B) reports a file with the size
\* and the content A had, whatever other keys the bucket holds.
C11_RenameMovesFile ==
    RenamedFile =>
        /\ Stat(bucket, gh.path).err = "ErrNotExist"
        /\ Stat(bucket, gh.to).err = "nil"
        /\ ~Stat(bucket, gh.to).info.directory
        /\ Stat(bucket, gh.to).info.sizeInBytes
              = Len(ObjectData(gh.before, gh.path))
        /\ ObjectData(bucket, gh.to) = ObjectData(gh.before, gh.path)

\* the part of C11 that holds: the object is at B with its content and no
\* longer at A, and Stat(A) reports NotExist when no key left starts with A
C11_ObjectMoved ==
    RenamedFile =>
        /\ BKey(gh.path) \notin Keys(bucket)
        /\ Stat(bucket, gh.to).err = "nil"
        /\ ~Stat(bucket, gh.to).info.directory
        /\ Stat(bucket, gh.to).info.sizeInBytes
              = Len(ObjectData(gh.before, gh.path))
        /\ ObjectData(bucket, gh.to) = ObjectData(gh.before, gh.path)
        /\ (\A k \in Keys(bucket) : ~HasPrefix(k, BKey(gh.path)))
              => Stat(bucket, gh.path).err = "ErrNotExist"

\* a rename onto a name that shares no prefix with the old one
C11_MovedWitness ==
    /\ RenamedFile
    /\ gh.path = <<"/", "d", "/", "a">>
    /\ Stat(bucket, gh.path).err = "ErrNotExist"

\* C12: Stat(p), p without a trailing slash: when the HEAD of the key
\* succeeds, file metadata with the object's size; when it reports
\* not-found and the LIST with the key as prefix and maxKeys = 1 returns a
\* key, directory metadata; when that LIST returns none, a NotExist error.
C12_StatResolves ==
    (ret.op = "Stat" /\ ret.err # "ErrBackend" /\ ~HasSuffix(gh.path, Slash)) =>
        IF BKey(gh.path) \in Keys(bucket)
        THEN /\ ret.err = "nil" /\ ret.info.ok /\ ~ret.info.directory
             /\ ret.info.sizeInBytes = Len(bucket[BKey(gh.path)].data)
             /\ ret.n = 1 /\ ret.lists = 0
        ELSE IF \E k \in Keys(bucket) : HasPrefix(k, BKey(gh.path))
        THEN /\ ret.err = "nil" /\ ret.info.ok /\ ret.info.directory
             /\ ret.n = 2 /\ ret.lists = 1
        ELSE /\ ret.err = "ErrNotExist" /\ ~ret.info.ok
             /\ ret.n = 2 /\ ret.lists = 1

\* a directory without a marker, found by its child
C12_Witness ==
    /\ ret.op = "Stat" /\ ret.err = "nil"
    /\ gh.path = <<"/", "d">>
    /\ <<"d", "/">> \notin Keys(bucket)
    /\ <<"d", "/", "a">> \in Keys(bucket)
    /\ ret.info.directory

\* a file of two bytes
C12_WitnessFile ==
    /\ ret.op = "Stat" /\ ret.err = "nil"
    /\ ~ret.info.directory /\ ret.info.sizeInBytes = 2

\* a path that names nothing
C12_WitnessNotExist ==
    /\ ret.op = "Stat" /\ ret.err = "ErrNotExist"
    /\ Keys(bucket) # {}

\* C13: when Create(p) has returned without error the object p exists: a
\* Stat(p) made before the handle is written or closed succeeds and reports
\* a file of size 0, whether or not p existed (with any content) before.
C13_CreateVisible ==
    [][(ret.op = "Create" /\ ret.err = "nil"
            /\ ret'.op = "Stat" /\ gh'.path = gh.path
            /\ ret'.err # "ErrBackend") =>
        /\ f.held /\ f.streamWrite /\ ~f.closed
        /\ ret'.err = "nil" /\ ret'.info.ok
        /\ ~ret'.info.directory
        /\ ret'.info.sizeInBytes = 0]_vars

\* the Stat of a path just created, the handle still open and unwritten
C13_Witness ==
    /\ ret.op = "Stat" /\ ret.err = "nil"
    /\ ~ret.info.directory /\ ret.info.sizeInBytes = 0
    /\ f.held /\ f.streamWrite /\ ~f.closed
    /\ f.name = gh.path
    /\ up.pc = "run" /\ up.body = <<>>

\* a Create over an object that held a byte
C13_WitnessOver ==
    /\ ret.op = "Create" /\ ret.err = "nil"
    /\ ObjectData(gh.before, gh.path) = <<1>>
    /\ PlainFile(bucket, gh.path)
    /\ ObjectData(bucket, gh.path) = <<>>

\* the bucket without one key
Without(b, key) == [k \in Keys(b) \ {key} |-> b[k]]

\* Remove returns the error of a failed Stat and issues no DELETE; of an
\* existing plain file it deletes exactly the key
RemoveDeletesKey ==
    ret.op = "Remove" =>
        /\ Stat(gh.before, gh.path).err # "nil" =>
              /\ ret.err \in {Stat(gh.before, gh.path).err, "ErrBackend"}
              /\ ret.n = 0
        /\ ret.n = 0 => (ret.err # "nil" /\ bucket = gh.before)
        /\ (PlainFile(gh.before, gh.path) /\ ret.err = "nil") =>
              /\ ret.n = 1
              /\ bucket = Without(gh.before, BKey(gh.path))

\* C14: Remove(p) returns the error of a failed Stat(p) and issues no
\* DELETE; for an existing plain file p it deletes exactly the key p, and a
\* Stat(p) after it reports NotExist.
C14_RemoveFile ==
    /\ RemoveDeletesKey
    /\ (ret.op = "Remove" /\ ret.err = "nil" /\ PlainFile(gh.before, gh.path))
          => Stat(bucket, gh.path).err = "ErrNotExist"

\* the part of C14 that holds: Stat(p) reports NotExist after the Remove
\* when no key left starts with p
C14_RemoveThenStat ==
    /\ RemoveDeletesKey
    /\ (ret.op = "Remove" /\ ret.err = "nil" /\ PlainFile(gh.before, gh.path)
          /\ \A k \in Keys(bucket) : ~HasPrefix(k, BKey(gh.path)))
          => Stat(bucket, gh.path).err = "ErrNotExist"

\* the marker key of a path
MarkerKey(path) == BKey(path) \o Slash

\* Mkdir and MkdirAll return the same and leave the same bucket, whatever
\* call fails; either, returning nil, has issued one upload that put the
\* empty marker p/ and changed no other key
MkdirPutsMarker ==
    /\ \A p \in FacadePaths, failAt \in 0..MaxFail :
          Mkdir(NewWorld(bucket, failAt), p)
              = MkdirAll(NewWorld(bucket, failAt), p)
    /\ (ret.op \in {"Mkdir", "MkdirAll"} /\ ret.err = "nil") =>
          /\ ret.n = 1
          /\ bucket = PutObject(gh.before, MarkerKey(gh.path), <<>>)
    /\ (ret.op \in {"Mkdir", "MkdirAll"} /\ ret.err # "nil") =>
          bucket = gh.before

\* C15: Mkdir(p) and MkdirAll(p) have the same effect: returning nil, they
\* have created exactly the zero-byte marker p/, no marker of an ancestor,
\* changed no other key, and Stat(p) then reports a directory.
C15_MkdirMarker ==
    /\ MkdirPutsMarker
    /\ (ret.op \in {"Mkdir", "MkdirAll"} /\ ret.err = "nil") =>
          /\ Stat(bucket, gh.path).err = "nil"
          /\ Stat(bucket, gh.path).info.directory

\* the part of C15 that holds: Stat(p) reports a directory when p names no
\* object itself
C15_MkdirThenStat ==
    /\ MkdirPutsMarker
    /\ (ret.op \in {"Mkdir", "MkdirAll"} /\ ret.err = "nil"
          /\ BKey(gh.path) \notin Keys(bucket)) =>
          /\ Stat(bucket, gh.path).err = "nil"
          /\ Stat(bucket, gh.path).info.directory

(***************************************************************************)
(* Claims on opening.                                                      *)
(***************************************************************************)
\* C16: OpenFile with a flag set that holds O_RDWR or O_APPEND (with any
\* other flags, O_CREATE included) returns NotSupported and no handle,
\* issues no backend call and starts no upload; any other flag set that
\* holds O_CREATE or O_WRONLY opens the handle in write mode.
C16_OpenFlags ==
    [][\A flag \in SUBSET Flags :
        CallOpenFile(FilePath, flag) =>
            /\ ("O_RDWR" \in flag \/ "O_APPEND" \in flag) =>
                  /\ ret'.err = "ErrNotSupported"
                  /\ ~f'.held
                  /\ ret'.n = 0
                  /\ UNCHANGED <<bucket, pipe, up>>
            /\ ("O_RDWR" \notin flag /\ "O_APPEND" \notin flag
                  /\ ("O_CREATE" \in flag \/ "O_WRONLY" \in flag)) =>
                  /\ ret'.err = "nil"
                  /\ f'.held /\ f'.streamWrite /\ ~f'.streamRead.open
                  /\ ~f'.closed
                  /\ up'.pc = "run" /\ up'.key = FilePath
                  /\ ret'.n = 0
                  /\ UNCHANGED bucket]_vars

\* an OpenFile refused after a handle was written and closed: the object
\* and the finished upload are as they were
C16_Witness ==
    /\ ret.op = "OpenFile" /\ ret.err = "ErrNotSupported"
    /\ ~f.held
    /\ up.pc = "done"
    /\ TheSize = MaxSize

\* a handle opened in write mode
C16_WitnessWrite ==
    /\ ret.op = "OpenFile" /\ ret.err = "nil"
    /\ f.held /\ f.streamWrite
    /\ up.pc = "run"

C17_WitnessFile ==
    /\ ret.op = "OpenFile" /\ ret.err = "nil"
    /\ f.held /\ ~f.cachedInfo.directory /\ f.cachedInfo.sizeInBytes = 1
    /\ f.streamReadOffset = 0

\* a path that is nothing: the error and no handle
C17_WitnessNotExist ==
    /\ ret.op = "OpenFile" /\ ret.err = "ErrNotExist"
    /\ ~f.held
    /\ Keys(bucket) # {}

C18_WitnessPublic ==
    /\ ret.op = "Chmod" /\ ret.err = "nil"
    /\ gh.mode = 6
    /\ ret.acl.acl = "public-read-write"

\* the others may read and execute: public-read
C18_WitnessRead ==
    /\ ret.op = "Chmod" /\ ret.err = "nil"
    /\ gh.mode = 5
    /\ ret.acl.acl = "public-read"

(***************************************************************************)
(* Claims on the properties of uploaded objects.                           *)
(***************************************************************************)
\* the MIME type of each path of SpecProps, by its extension
GuessedType(path) ==
    CASE path = <<"/", "a", ".", "c", "s", "s">> -> "text/css; charset=utf-8"
      [] path = <<"/", "d", ".", "p", "n", "g", "/", "a">> -> ""

\* the properties a request for the key carries under the configuration
Stamped(input, props, key) ==
    /\ input.Key = key
    /\ input.ACL = (IF props.set THEN props.ACL ELSE NoStr)
    /\ input.CacheControl = (IF props.set THEN props.CacheControl ELSE NoStr)
    /\ input.ContentType =
          (IF props.set /\ props.ContentType # NoStr THEN props.ContentType
           ELSE GuessedType(key))

\* C19: for the same key and the same configuration, the empty PUT of
\* Create and the streaming upload of a write handle stamp the same
\* properties: each configured field of FileProps is applied, and a
\* Content-Type that is not configured is the MIME type guessed from the
\* extension of the key.
C19_SameProps ==
    [][\A p \in PropsPaths :
        /\ CallCreate(p) =>
              /\ Stamped(ret'.req, fs.FileProps, p)
              /\ ret'.err = "nil" =>
                    (up'.pc = "run" /\ up'.input = ret'.req)
        /\ CallOpenFile(p, {"O_WRONLY"}) =>
              (up'.pc = "run" /\ Stamped(up'.input, fs.FileProps, p))]_vars

\* a Create under a configuration with the Cache-Control alone: the PUT and
\* the upload carry it, with the type of the key's extension
C19_Witness ==
    /\ ret.op = "Create" /\ ret.err = "nil"
    /\ fs.FileProps.set
    /\ fs.FileProps.CacheControl = "max-age=300"
    /\ fs.FileProps.ContentType = NoStr
    /\ ret.req.CacheControl = "max-age=300"
    /\ ret.req.ContentType = "text/css; charset=utf-8"
    /\ up.pc = "run" /\ up.input = ret.req

\* a handle opened for writing under a configured Content-Type and ACL
C19_WitnessHandle ==
    /\ ret.op = "OpenFile" /\ ret.err = "nil"
    /\ up.pc = "run"
    /\ up.key = <<"/", "a", ".", "c", "s", "s">>
    /\ up.input.ContentType = "my-type"
    /\ up.input.ACL = "public-read"
    /\ fs.FileProps.ContentType = "my-type"

(***************************************************************************)
(* Claims on the streams of a handle.                                      *)
(***************************************************************************)
\* C20: in every reachable state of a handle, under any sequence of Stat,
\* Read, ReadAt, Write, WriteAt, Seek, Readdir and Close calls on a handle
\* opened in any mode, the handle holds at most one of a read stream and a
\* write stream.
C20_OneStream == ~(f.held /\ f.streamRead.open /\ f.streamWrite)

\* the rest of C20: opening a write stream on a handle that has one fails
\* with AlreadyOpened and leaves the handle as it is
C20_AlreadyOpened ==
    (f.held /\ f.streamWrite) =>
        /\ openWriteStream(f).err = "ErrAlreadyOpened"
        /\ openWriteStream(f).f = f
        /\ ~openWriteStream(f).started

(***************************************************************************)
(* Claims on the errors of the write path.                                 *)
(***************************************************************************)
\* C21: whenever Write on a write handle fails because the upload has
\* failed and closed the pipe, Write returns zero bytes and the error of
\* the upload; a Write whose write to the pipe failed never returns the
\* closed-pipe error or nil, whether the upload failed before the Write or
\* while it was blocked.
C21_WriteReturnsCause ==
    (ret.op = "Write" /\ ret.writing /\ ret.n = 0) =>
        /\ up.pc \in {"send", "done"}
        /\ up.err = "ErrBackend"
        /\ ret.err = up.err
        /\ ret.err \notin {"nil", "ErrClosedPipe"}

\* a Write that follows an accepted Write and fails: the upload has failed
C21_Witness ==
    /\ ret.op = "Write" /\ ret.writing /\ ret.n = 0
    /\ ret.err = "ErrBackend"
    /\ gh.writes >= 1
    /\ pipe.wclosed /\ ~f.closed

\* the upload fails when it has taken a part of what a blocked Write handed
\* over: the Write returns zero and the cause
C21_WitnessBlocked ==
    /\ ret.op = "Write" /\ ret.writing /\ ret.n = 0
    /\ ret.err = "ErrBackend"
    /\ Len(up.body) = 1 /\ Len(pipe.p) = 2 /\ gh.writes = 0

\* C22: WriteAt never succeeds.  On a handle opened for writing it returns
\* NotSupported without a byte entering the pipe; on a handle opened
\* read-only it returns an error to the caller, and does not crash.
C22_WriteAtFails ==
    ret.op = "WriteAt" => ret.err \notin {"nil", "panic"}

\* the part of C22 on handles opened for writing: NotSupported (the closed
\* error once the handle is closed), and the pipe, the upload and the
\* bucket are as they were
C22_WriteAtOnWriteHandle ==
    [][\A off \in (-1)..1 :
        (CallWriteAt(<<1>>, off) /\ f.streamWrite) =>
            /\ ret'.err = (IF f.closed THEN "ErrFileClosed"
                           ELSE "ErrNotSupported")
            /\ UNCHANGED <<bucket, pipe, up, pc, f>>]_vars

(***************************************************************************)
(* Claims on Rename of a directory.                                        *)
(***************************************************************************)
\* the key a key under the directory old has under the directory new
Moved(k, old, new) ==
    BKey(new) \o SubSeq(k, Len(BKey(old)) + 1, Len(k))

\* the keys of a bucket under the directory of a path, its marker included
Under(b, path) == {k \in Keys(b) : HasPrefix(k, BKey(path) \o Slash)}

\* a Rename of a directory (it had its marker or a key under it) to another
\* name has returned nil
RenamedDirectory ==
    /\ ret.op = "Rename" /\ ret.err = "nil"
    /\ gh.path # gh.to
    /\ Under(gh.before, gh.path) # {}

\* C23: a Rename(A, B) of a directory A that returns nil moves the whole
\* subtree: every object A/x, at any depth, is B/x afterwards with the same
\* content, no key under A/ remains, and the marker A/, if there was one,
\* is at B/ and no more at A/.
C23_RenameMovesTree ==
    RenamedDirectory =>
        /\ \A k \in Under(gh.before, gh.path) :
              /\ Moved(k, gh.path, gh.to) \in Keys(bucket)
              /\ bucket[Moved(k, gh.path, gh.to)].data = gh.before[k].data
        /\ Under(bucket, gh.path) = {}

\* the part of C23 on the objects that are no markers: each is moved with
\* its content, and none remains under A/
C23_FilesMoved ==
    RenamedDirectory =>
        /\ \A k \in Under(gh.before, gh.path) :
              ~HasSuffix(k, Slash) =>
                  /\ Moved(k, gh.path, gh.to) \in Keys(bucket)
                  /\ bucket[Moved(k, gh.path, gh.to)].data = gh.before[k].data
        /\ \A k \in Under(bucket, gh.path) : HasSuffix(k, Slash)

\* a directory without markers has been moved with its subdirectory
C23_FilesMovedWitness ==
    /\ RenamedDirectory
    /\ Keys(gh.before) = { <<"d", "/", "a">>, <<"d", "/", "s", "/", "a">> }
    /\ Keys(bucket) = { <<"e", "/", "a">>, <<"e", "/", "s", "/", "a">> }

(***************************************************************************)
(* Claims on the failures of Rename and RemoveAll.                         *)
(***************************************************************************)
\* a Rename of a plain file to another name has returned
RenameOfFile ==
    /\ ret.op = "Rename"
    /\ gh.path # gh.to
    /\ PlainFile(gh.before, gh.path)

\* C24: for a Rename(A, B) of a plain file, if the COPY fails Rename
\* returns that error, no DELETE is issued and the bucket is as it was; if
\* the COPY succeeds and the DELETE fails Rename returns that error and
\* A and B both hold the content of A; nothing is undone.  Rename returns
\* nil only when A is deleted.
C24_RenameFailures ==
    RenameOfFile =>
        /\ ret.deletes <= 1
        /\ (ret.err # "nil" /\ ret.deletes = 0) =>
              (ret.err = "ErrBackend" /\ bucket = gh.before)
        /\ (ret.err # "nil" /\ ret.deletes = 1) =>
              /\ ret.err = "ErrBackend"
              /\ bucket = PutObject(gh.before, gh.to,
                                    gh.before[BKey(gh.path)].data)
              /\ BKey(gh.path) \in Keys(bucket)
        /\ ret.err = "nil" =>
              (ret.deletes = 1 /\ BKey(gh.path) \notin Keys(bucket))

\* the DELETE has failed after the COPY: both names hold the two bytes
C24_Witness ==
    /\ RenameOfFile
    /\ ret.err = "ErrBackend" /\ ret.deletes = 1
    /\ gh.path = <<"/", "f", "a">> /\ gh.to = <<"/", "f">>
    /\ <<"f">> \in Keys(gh.before)
    /\ bucket[ <<"f">> ].data = <<1, 2>>
    /\ bucket[ <<"f", "a">> ].data = <<1, 2>>
    /\ gh.before[ <<"f">> ].data = <<1>>

\* the COPY has failed: nothing has changed
C24_WitnessCopy ==
    /\ RenameOfFile
    /\ ret.err = "ErrBackend" /\ ret.deletes = 0 /\ ret.n = 2
    /\ BKey(gh.to) \notin Keys(bucket)

\* C25: if a listing or a delete of RemoveAll fails, RemoveAll stops at
\* that step and returns its error: no call follows the failing one (the
\* marker of the directory is not deleted), what was deleted before stays
\* deleted, and nothing is put back or changed.  RemoveAll returns nil
\* only when none of its calls failed.
C25_RemoveAllStops ==
    ret.op = "RemoveAll" =>
        /\ ret.err \in {"nil", "ErrBackend"}
        /\ ret.err # "nil" =>
              /\ ret.n + ret.lists = gh.failAt
              /\ MarkerKey(gh.path) \in Keys(gh.before) =>
                    MarkerKey(gh.path) \in Keys(bucket)
              /\ \A k \in Keys(bucket) :
                    k \in Keys(gh.before) /\ bucket[k] = gh.before[k]
              /\ Cardinality(Keys(gh.before) \ Keys(bucket)) <= ret.n
        /\ ret.err = "nil" => gh.failAt = 0

\* the delete of the file of /d fails after the subdirectory was removed:
\* its three keys are gone, the file and the marker of /d are there
C25_Witness ==
    /\ ret.op = "RemoveAll" /\ ret.err = "ErrBackend"
    /\ gh.path = <<"/", "d">>
    /\ gh.before = MakeBucket(SmallKeys \ { <<"f">> })
    /\ Keys(bucket) = { <<"d", "/">>, <<"d", "/", "a">> }
    /\ ret.n = 4 /\ ret.lists = 3

\* the second page of the listing of a large directory fails: nothing was
\* deleted
C25_WitnessList ==
    /\ ret.op = "RemoveAll" /\ ret.err = "ErrBackend"
    /\ gh.path = <<"/", "b">>
    /\ ret.lists = 2 /\ ret.n = 0
    /\ bucket = gh.before

(***************************************************************************)
(* Claims on Stat of a name with a trailing slash.                         *)
(***************************************************************************)
\* Stat was asked for a name with a trailing slash, the bucket holds the
\* object of that key and the HEAD, its one call, did not fail
StatOfMarker ==
    /\ ret.op = "Stat"
    /\ HasSuffix(gh.path, Slash) /\ gh.path # Slash
    /\ BKey(gh.path) \in Keys(bucket)
    /\ ret.n = 1 /\ ret.err # "ErrBackend"

\* C26: Stat on a path given with a trailing slash for which the HEAD on the
\* key succeeds (the marker made by Mkdir) returns success with the
\* metadata of a directory: IsDir is true and the mode is that of a
\* directory.
C26_MarkerIsDirectory ==
    StatOfMarker =>
        /\ ret.err = "nil"
        /\ IsDir(ret.info)
        /\ Mode(ret.info) = ModeDir

\* the part of C26 that holds: Stat succeeds, and the name is the path
C26_MarkerStatSucceeds ==
    StatOfMarker =>
        /\ ret.err = "nil"
        /\ ret.info.ok /\ ret.info.name = gh.path
        /\ ret.info.sizeInBytes = 0

(***************************************************************************)
(* Claims on the results of Readdir.                                       *)
(***************************************************************************)
\* C27: for n > 0, Readdir(n) returns at most n entries, and whenever it
\* returns no entry it returns an error (io.EOF at the end of the
\* directory).
C27_ReaddirEmptyHasError ==
    [][\A n \in 1..MaxN :
        CallReaddir(n) =>
            /\ Len(ret'.data) <= n
            /\ ret'.data = <<>> => ret'.err # "nil"]_vars

\* the part of C27 that holds: at most n entries, and no entry together
\* with an error
C27_AtMostN ==
    [][\A n \in 1..MaxN :
        CallReaddir(n) =>
            /\ Len(ret'.data) <= n
            /\ ret'.err # "nil" => ret'.data = <<>>]_vars

\* a Readdir(n <= 0) whose LIST failed after a page was read
ReaddirAllFailedLate ==
    /\ ret.op = "Readdir"
    /\ ret.err = "ErrBackend"
    /\ ret.lists >= 2

\* C28: a Readdir(n <= 0) that meets a LIST error after one or more pages
\* were read returns the entries of those pages together with the error;
\* when it reads to the end it returns all entries with a nil error.
C28_ReaddirAllKeepsEntries ==
    /\ ReaddirAllFailedLate =>
        /\ ret.data # <<>>
        /\ Range(ret.data) \subseteq DirEntries(bucket, f.name)
    /\ (gh.kind = "d" /\ gh.trail = "all" /\ ret.op = "Readdir"
            /\ ret.err = "nil") =>
        Range(ret.data) = DirEntries(bucket, f.name)

\* the part of C28 that holds: read to the end, all entries and a nil error;
\* after a late LIST error, the error alone
C28_ReaddirAllToEnd ==
    /\ ReaddirAllFailedLate => ret.data = <<>>
    /\ (gh.kind = "d" /\ gh.trail = "all" /\ ret.op = "Readdir"
            /\ ret.err = "nil") =>
        /\ Range(ret.data) = DirEntries(bucket, f.name)
        /\ Len(ret.data) = Cardinality(DirEntries(bucket, f.name))

(***************************************************************************)
(* Specification of GetPath: facades with a key prefix, and paths of up to *)
(* MaxDepth elements, rooted or not.                                       *)
(***************************************************************************)
MaxDepth == 2

PathPrefixes ==
    { <<"/", "b">>, <<"b">>, <<"/", "b", "/">>, <<"/", "b", "/", "a">> }

PathElements == { <<"a">>, <<"b">>, <<"b", "a">>, <<".", ".">> }

PathsOfElements ==
    LET seqs == UNION {[1..n -> PathElements] : n \in 1..MaxDepth}
    IN  {JoinSlash(q) : q \in seqs} \cup {Slash \o JoinSlash(q) : q \in seqs}

\* Fs.GetPath, as every method of the facade calls it on its argument
CallGetPath(path) ==
    /\ pc = "idle"
    /\ ret' = [NoRet EXCEPT !.op = "GetPath",
                            !.data = GetPathOf(fs.prefix, path)]
    /\ gh' = [NoHistory EXCEPT !.kind = "fs", !.path = path]
    /\ UNCHANGED <<bucket, f, pipe, up, pc>>
    /\ UNCHANGED fs

InitPath ==
    /\ bucket = EmptyBucket
    /\ fs \in {NewFsWithPrefix(p) : p \in PathPrefixes}
    /\ f = NoFile
    /\ pipe = NoPipe
    /\ up = NoUpload
    /\ pc = "idle"
    /\ ret = NoRet
    /\ gh = NoHistory

NextPath == \E path \in PathsOfElements : CallGetPath(path)

SpecPath == InitPath /\ [][NextPath]_vars

\* a key lies under a prefix: it is the prefix or continues it after a slash
UnderPrefix(prefix, key) ==
    LET under(p, k) == k = p \/ HasPrefix(k, p \o Slash)
    IN  under(TrimTrailingSlashes(BKey(prefix)), BKey(key))

\* the elements of a path hold no ".."
NoDotDot(path) ==
    \A i \in 1..Len(SplitSlash(path)) : SplitSlash(path)[i] # <<".", ".">>

\* C29: with a key prefix configured, every key the facade sends to the
\* backend lies under that prefix, whatever the caller's path, paths with
\* ".." elements and paths that begin with the prefix's characters included.
C29_KeysUnderPrefix ==
    ret.op = "GetPath" => UnderPrefix(fs.prefix, ret.data)

\* the part of C29 that holds: a path without ".." that does not begin with
\* the prefix's characters is joined under the prefix
C29_JoinedUnderPrefix ==
    (ret.op = "GetPath" /\ NoDotDot(gh.path)
        /\ ~HasPrefix(gh.path, fs.prefix)) =>
        /\ UnderPrefix(fs.prefix, ret.data)
        /\ ret.data = Clean(fs.prefix \o Slash \o gh.path)

C29_JoinedWitness ==
    /\ ret.op = "GetPath"
    /\ fs.prefix = <<"/", "b">>
    /\ gh.path = <<"/", "a", "/", "b", "a">>
    /\ ret.data = <<"/", "b", "/", "a", "/", "b", "a">>

(***************************************************************************)
(* Claim on Read and Seek taken together.                                  *)
(***************************************************************************)
\* a Read that returns the bytes at the logical offset and advances the
\* offset by their number (no byte when the offset is at or beyond the size)
ReadsAtOffset(file, result, file2) ==
    LET from == MinOf(file.streamReadOffset, TheSize)
    IN  /\ from + result.n <= TheSize
        /\ result.data = SubSeq(TheObject, from + 1, from + result.n)
        /\ file2.streamReadOffset = file.streamReadOffset + result.n

\* C30: under any interleaving of Read and Seek on one read handle, every
\* Read returns the object's bytes from the logical offset in effect when
\* it was called, and afterwards the offset is that offset plus the number
\* of bytes returned, also when an earlier Read left a range stream open.
C30_ReadAtLogicalOffset ==
    [][\A len \in 1..MaxBuf :
        (gh.kind = "r" /\ CallRead(len) /\ ret'.err \in {"nil", "EOF"})
            => ReadsAtOffset(f, ret', f')]_vars

\* the part of C30 that holds: the offset advances by the bytes returned,
\* and the bytes are those at the offset when no range stream is open or
\* the open one stands at the offset
C30_ReadAtStreamOffset ==
    [][\A len \in 1..MaxBuf :
        (gh.kind = "r" /\ CallRead(len) /\ ret'.err \in {"nil", "EOF"})
            => /\ f'.streamReadOffset = f.streamReadOffset + ret'.n
               /\ (~f.streamRead.open
                      \/ f.streamRead.pos = f.streamReadOffset)
                    => ReadsAtOffset(f, ret', f')]_vars

(***************************************************************************)
(* Claims on closed handles and on termination.                            *)
(***************************************************************************)
\* a Read, ReadAt, Write, WriteAt or Seek has returned (or crashed) on a
\* handle that Close had returned on
AfterClose ==
    /\ f.held /\ f.closed
    /\ pc = "idle"
    /\ ret.op \in {"Read", "ReadAt", "Write", "WriteAt", "Seek"}

\* C31: once Close has returned, every later Read, ReadAt, Write, WriteAt
\* and Seek on the handle returns an error, opens no range GET and no
\* upload, and returns no object data.
C31_ClosedIsAbsorbing ==
    AfterClose =>
        /\ ret.err \notin {"nil", "panic"}
        /\ ret.data = <<>>
        /\ ~f.streamRead.open
        /\ ~f.streamWrite

\* the part of C31 that holds: Seek, ReadAt and WriteAt on a closed handle
\* return ErrFileClosed and no data, and no call opens an upload
C31_ClosedSeekFamily ==
    AfterClose =>
        /\ ~f.streamWrite
        /\ ret.op \in {"Seek", "ReadAt", "WriteAt"} =>
            /\ ret.err = "ErrFileClosed"
            /\ ret.data = <<>>

\* the write path under the scheduling of the program: the upload goroutine
\* keeps reading the pipe while a Write waits on it, uploader.Upload
\* returns, and a waiting Close receives what the goroutine sends
SpecWriteLive ==
    /\ SpecWrite
    /\ WF_vars(\E k \in 1..MaxBuf : PipeRead(k))
    /\ WF_vars(UploadFail \/ UploadDone)
    /\ WF_vars(CloseReturn)

\* C32: if uploader.Upload returns, a Write blocked on the pipe returns, a
\* Close that waits for the upload returns, and when Close has returned the
\* upload goroutine has ended (it waits neither on the pipe nor on the
\* completion channel).
C32_WritePathReturns ==
    /\ (pc = "Write") ~> (pc = "idle" /\ ret.op = "Write")
    /\ (pc = "Close") ~> (pc = "idle" /\ ret.op = "Close" /\ up.pc = "done")

\* a Write was blocked when the upload failed, and the Close after it has
\* returned
C32_Witness ==
    /\ pc = "idle"
    /\ ret.op = "Close" /\ ret.writing /\ ret.err = "ErrBackend"
    /\ up.pc = "done"
    /\ pipe.p # <<>> /\ gh.writes = 0

\* a Write waits on the pipe with a part of its bytes taken
C32_WitnessBlocked ==
    /\ pc = "Write"
    /\ up.pc = "run"
    /\ pipe.buf # <<>> /\ Len(pipe.buf) < Len(pipe.p)

(***************************************************************************)
(* Specification of reading to the end: the path is opened for reading     *)
(* once, the offset is set by at most one Seek before the first Read, and  *)
(* Read is then called again and again; the Reads whose GET is answered    *)
(* are taken fairly.                                                       *)
(***************************************************************************)
MaxObject == 3

InitReadToEnd ==
    /\ \E size \in 0..MaxObject :
          bucket \in {EmptyBucket,
                      PutObject(EmptyBucket, FilePath, [i \in 1..size |-> i])}
    /\ Idle

ReadNoBackendError == \E len \in 1..MaxBuf : CallRead(len) /\ ret'.err # "ErrBackend"

NextReadToEnd ==
    \/ ~f.held /\ CallOpenFile(FilePath, {})
    \/ \E offset \in 0..MaxSeek :
        /\ gh.trail = "fresh"
        /\ CallSeek(offset, SeekStart)
    \/ \E len \in 1..MaxBuf : CallRead(len)

SpecReadToEnd ==
    /\ InitReadToEnd
    /\ [][NextReadToEnd]_vars
    /\ WF_vars(ReadNoBackendError)

RenameUntilCopy(w, in_oldname, in_newname) ==
    LET moved(st, ch, lp) ==
            IF lp.err # "nil" THEN [w |-> lp.w, err |-> lp.err, copy |-> FALSE]
            ELSE IF Len(ch.fis) > 0 /\ st.err = "nil"
            THEN [w |-> lp.w, err |-> "nil", copy |-> FALSE]
            ELSE [w |-> lp.w, err |-> "nil", copy |-> TRUE]
        children(st, ch) ==
            IF ch.err # "nil" THEN [w |-> ch.w, err |-> ch.err, copy |-> FALSE]
            ELSE moved(st, ch,
                       RenameLoop(ch.w, in_oldname, in_newname, ch.fis))
        stated(st, oldname) ==
            IF ~st.info.ok THEN [w |-> st.w, err |-> "panic", copy |-> FALSE]
            ELSE IF st.info.directory \/ st.err # "nil"
            THEN children(st, ReaddirAll(NewFile(oldname), st.w))
            ELSE [w |-> st.w, err |-> "nil", copy |-> TRUE]
        rename(oldname, newname) ==
            IF oldname = newname THEN [w |-> w, err |-> "nil", copy |-> FALSE]
            ELSE stated(StatIn(w, oldname), oldname)
    IN  rename(GetPath(in_oldname), GetPath(in_newname))

\* Fs.Rename is called and runs up to its COPY
RenameBegin(in_oldname, in_newname) ==
    /\ pc = "idle"
    /\ \E failAt \in 0..MaxFail :
        \E r \in {RenameUntilCopy(NewWorld(bucket, failAt), in_oldname,
                                  in_newname)} :
            /\ bucket' = r.w.bucket
            /\ gh' = FacadeCall(in_oldname, in_newname)
            /\ IF r.copy
               THEN /\ pc' = "RenameCopy"
                    /\ UNCHANGED ret
               ELSE /\ pc' = "idle"
                    /\ ret' = [NoRet EXCEPT !.op = "Rename", !.err = r.err,
                                            !.n = r.w.calls,
                                            !.lists = r.w.lists]
    /\ UNCHANGED <<f, pipe, up>>
    /\ UNCHANGED fs

\* the COPY of the Rename in progress
RenameCopyStep ==
    /\ pc = "RenameCopy"
    /\ \E failAt \in 0..1 :
        \E r \in {RenameCopy(NewWorld(bucket, failAt), GetPath(gh.path),
                             GetPath(gh.to))} :
            /\ bucket' = r.w.bucket
            /\ IF r.err = "nil"
               THEN /\ pc' = "RenameDelete"
                    /\ UNCHANGED ret
               ELSE /\ pc' = "idle"
                    /\ ret' = [NoRet EXCEPT !.op = "Rename", !.err = r.err]
    /\ UNCHANGED <<f, pipe, up, gh>>
    /\ UNCHANGED fs

\* the DELETE of the Rename in progress, and its return
RenameDeleteStep ==
    /\ pc = "RenameDelete"
    /\ \E failAt \in 0..1 :
        \E r \in {RenameDelete(NewWorld(bucket, failAt), GetPath(gh.path))} :
            /\ bucket' = r.w.bucket
            /\ pc' = "idle"
            /\ ret' = [NoRet EXCEPT !.op = "Rename", !.err = r.err,
                                    !.deletes = r.w.deletes]
    /\ UNCHANGED <<f, pipe, up, gh>>
    /\ UNCHANGED fs

\* three files; the file /f holds another byte than the others
FileKeys == { <<"f">>, <<"d">>, <<"e", "/", "a">> }

FileBucket(S) ==
    [k \in S |-> [data |-> IF k = <<"f">> THEN <<1>> ELSE <<2>>]]

FilePaths == { <<"/", "f">>, <<"/", "d">>, <<"/", "e", "/", "a">> }

InitRenameFile ==
    /\ bucket \in {FileBucket(S) : S \in SUBSET FileKeys}
    /\ Idle

NextRenameFile ==
    /\ ~Crashed
    /\ \/ \E a, b \in FilePaths : RenameBegin(a, b)
       \/ RenameCopyStep
       \/ RenameDeleteStep

SpecRenameFile == InitRenameFile /\ [][NextRenameFile]_vars

\* a Rename of a file that was there is in progress or has returned
RenamingFile ==
    /\ gh.kind = "fs" /\ gh.to # <<>> /\ gh.to # gh.path
    /\ BKey(gh.path) \in Keys(gh.before)
    /\ pc \in {"RenameCopy", "RenameDelete"} \/ ret.op = "Rename"

\* the key holds what the old key held when Rename was called
HoldsContent(path) ==
    /\ BKey(path) \in Keys(bucket)
    /\ bucket[BKey(path)].data = gh.before[BKey(gh.path)].data

\* C34: in every state that can be seen during a Rename(A, B) of a file,
\* and after it, the file's content is under A or under B: the DELETE of A
\* is issued only when the COPY to B has succeeded.
C34_ContentNeverLost ==
    RenamingFile =>
        /\ HoldsContent(gh.path) \/ HoldsContent(gh.to)
        /\ pc = "RenameDelete" => HoldsContent(gh.to)

\* between COPY and DELETE: both keys hold the content, and the new key
\* held another content before
C34_Witness ==
    /\ RenamingFile
    /\ pc = "RenameDelete"
    /\ gh.path = <<"/", "f">> /\ gh.to = <<"/", "d">>
    /\ HoldsContent(gh.path) /\ HoldsContent(gh.to)
    /\ <<"d">> \in Keys(gh.before) /\ gh.before[<<"d">>].data = <<2>>

\* the Rename has returned nil: the content is under the new key alone
C34_WitnessDone ==
    /\ RenamingFile
    /\ ret.op = "Rename" /\ ret.err = "nil" /\ ret.deletes = 1
    /\ ~HoldsContent(gh.path) /\ HoldsContent(gh.to)

(***************************************************************************)
(* Claims on paths that do not exist.                                      *)
(***************************************************************************)
\* a Stat whose backend calls were answered, of a path that is no key
StatOfNoObject ==
    /\ ret.op = "Stat" /\ ret.err # "ErrBackend"
    /\ BKey(gh.path) \notin Keys(bucket)

\* C35: Stat(p) reports NotExist whenever no object has key p and no key
\* begins with p followed by a slash; a key that begins with the characters
\* of p alone does not make p a directory.
C35_StatNotExist ==
    (StatOfNoObject
        /\ ~\E k \in Keys(bucket) : HasPrefix(k, BKey(gh.path) \o Slash)) =>
        /\ ret.err = "ErrNotExist"
        /\ ~(ret.info.ok /\ ret.info.directory)

\* the part of C35 that holds: NotExist when no key begins with the
\* characters of p
C35_StatNotExistNoKey ==
    (StatOfNoObject
        /\ ~\E k \in Keys(bucket) : HasPrefix(k, BKey(gh.path))) =>
        /\ ret.err = "ErrNotExist"
        /\ ~ret.info.ok

\* a Rename whose backend calls were answered, of an old path that did not
\* exist: no object had its key and no key lay under it
RenameOfMissing ==
    /\ ret.op = "Rename" /\ ret.err # "ErrBackend"
    /\ gh.to # gh.path
    /\ BKey(gh.path) \notin Keys(gh.before)
    /\ ~\E k \in Keys(gh.before) : HasPrefix(k, BKey(gh.path) \o Slash)

\* C36: Rename(A, B), A # B, of an A that does not exist returns a NotExist
\* error without crashing, issues no COPY and no DELETE, and leaves the
\* bucket as it was.
C36_RenameMissing ==
    RenameOfMissing =>
        /\ ret.err = "ErrNotExist"
        /\ ret.deletes = 0
        /\ bucket = gh.before

\* the part of C36 that holds: no nil return, no DELETE, the bucket as it was
C36_RenameMissingNoEffect ==
    RenameOfMissing =>
        /\ ret.err # "nil"
        /\ ret.deletes = 0
        /\ bucket = gh.before

\* RemoveAll has returned nil for a path other than the root
RemovedAll ==
    /\ ret.op = "RemoveAll" /\ ret.err = "nil"
    /\ gh.path # Slash

\* C37: after RemoveAll(p) has returned nil, Stat(p) reports NotExist,
\* whether p was a directory or a file.
C37_RemoveAllThenStat ==
    RemovedAll => Stat(bucket, gh.path).err = "ErrNotExist"

\* the part of C37 that holds: a path that was no object's key is gone
C37_DirectoryGone ==
    (RemovedAll /\ BKey(gh.path) \notin Keys(gh.before)) =>
        Stat(bucket, gh.path).err = "ErrNotExist"

(***************************************************************************)
(* Claims on what a failed call leaves behind.                             *)
(***************************************************************************)
\* Create has returned an error
CreateFailed == ret.op = "Create" /\ ret.err # "nil"

\* C38: whenever Create returns an error (the empty PUT failed, the write
\* stream could not be opened, or the wait for the object failed), no
\* upload goroutine for the path is left running and no handle is left in
\* writing state.
C38_FailedCreateLeavesNothing ==
    CreateFailed =>
        /\ up.pc # "run"
        /\ ~(f.held /\ f.streamWrite)

\* the part of C38 that holds: a failed PUT returns before a handle is made
\* or an upload started
C38_FailedPutLeavesNothing ==
    (CreateFailed /\ ret.n = 1) =>
        /\ up.pc # "run"
        /\ ~f.held
        /\ bucket = gh.before

\* C39: a Readdir(n), n > 0, whose LIST fails returns the error and no
\* entry and leaves the continuation token and the exhausted flag as they
\* were: a retry on the handle resumes at the same page, and the pieces
\* returned on a handle that met such failures still hold no entry twice,
\* only entries of the directory, and all of them at end-of-sequence.
C39_FailedReaddirKeepsLister ==
    [][\A n \in 1..MaxN :
        CallReaddir(n) =>
            /\ ret'.err = "ErrBackend" =>
                /\ ret'.data = <<>>
                /\ f'.readdirContinuationToken = f.readdirContinuationToken
                /\ f'.readdirNotTruncated = f.readdirNotTruncated
                /\ f' = f
            /\ (gh'.kind = "d" /\ gh'.trail = "paged" /\ gh'.failAt = 1) =>
                /\ NoDuplicates(gh'.got)
                /\ Range(gh'.got) \subseteq DirEntries(bucket, f.name)
                /\ ret'.err = "EOF" =>
                       Range(gh'.got) = DirEntries(bucket, f.name)]_vars

\* a directory of two or more entries read to end-of-sequence in pages, with
\* a LIST that failed on the way
C39_Witness ==
    /\ gh.kind = "d" /\ gh.trail = "paged" /\ gh.failAt = 1
    /\ ret.op = "Readdir" /\ ret.err = "EOF"
    /\ Len(gh.got) >= 2
    /\ Range(gh.got) = DirEntries(bucket, f.name)

\* the LIST of the second page has just failed
C39_WitnessFailed ==
    /\ gh.kind = "d" /\ gh.trail = "paged" /\ gh.failAt = 1
    /\ ret.op = "Readdir" /\ ret.err = "ErrBackend"
    /\ f.readdirContinuationToken # NoToken /\ ~f.readdirNotTruncated
    /\ Len(gh.got) >= 1

====
